---- MODULE Spec2Model ----
(***************************************************************************)
(* Model of the regulation engine of ioBroker.ecoflow-powercontrol         *)
(* (src/lib/regulation.js, class Regulation) and of the timer and          *)
(* state-change callbacks that drive it (src/main.js).                     *)
(*                                                                         *)
(* Watt values are integers: the engine floors the history value, the      *)
(* EcoFlow readings (raw / 10) and every set-point; the readings drawn     *)
(* here are integers, and no additional feed-in source is configured, so   *)
(* the only fractions of a cycle are the two balance factors, which are    *)
(* kept exact as numerator / denominator.                                  *)
(***************************************************************************)
EXTENDS Integers, Sequences, FiniteSets, TLC

VARIABLES
    cfg,                      \* adapter.config: inverters, regulation
    invState,                 \* Regulation.invState, keyed by inverter
    cutoff,                   \* Regulation.cutoff
    batBedarf,                \* Regulation.batBedarf
    regulationEnabled,        \* Regulation.regulationEnabled
    realPowerWorkInProgress,  \* Regulation.realPowerWorkInProgress
    lastRealPower,            \* Regulation.lastRealPower
    hasLastRealPower,         \* Regulation.hasLastRealPower
    isConnected,              \* EcoflowMqtt.isConnected (and client present)
    now,                      \* Date.now(), in ms
    run,                      \* run() invocations: slot -> pc and locals
    urp,                      \* updateRealPower invocations: slot -> pc and locals
    host,                     \* host states the engine writes and reads back
    obs,                      \* what an observer of the devices and the host saw
    adapter,                  \* EcoflowPowerControl: interval handle, error log
    bridge,                   \* EcoflowMqtt: client, watchdog, device and message records
    store,                    \* StateManager: the state a helper call works on, and its result
    excess                    \* excess-charge controller: config, flags, switch and power states

vars == <<cfg, invState, cutoff, batBedarf, regulationEnabled,
          realPowerWorkInProgress, lastRealPower, hasLastRealPower,
          isConnected, now, run, urp, host, obs, adapter, bridge, store, excess>>

----------------------------------------------------------------------------
(* Bounds of the model *)

NInv == 2          \* configured, regulation-enabled inverters
MaxSlots == 2      \* run() invocations that can be pending at once
MaxUrp == 2        \* updateRealPower invocations that can be pending at once
MaxCount == 2      \* observation counters saturate here
MaxCycles == 2     \* timer ticks of the regulation interval
MaxMsgs == 2       \* inbound frames
MaxTicks == 3      \* advances of the clock
MaxWrites == 2     \* host-side writes to writeable states

(* Program constants *)

ZUSATZPOWER_INCREMENT == 20
GAP_MESSUNGEN == 3
ZusatzLimit == 300
BAT_MAX_OFFSET == 10
ImmediateOffMargin == 200
SerialGapLimit == 20
BalanceGapLimit == 10
GapWaitMs == 60000
RewriteMs == 60000
PeakSkipWatts == 100
BasePowerOffset == 30
BatDemandMargin == 10
PvBias == 10
FallbackPower == 150
DedupMinAge == 2000
WatchdogTickMs == 60000
ReconnectMs == 120000
PrioSettleMs == 60000
RegulationIntervalMs == 15000
MsPerMinute == 60000

Inverters == 1..NInv
Slots == 1..MaxSlots
UrpSlots == 1..MaxUrp

Min(a, b) == IF a < b THEN a ELSE b
Max(a, b) == IF a > b THEN a ELSE b
Inc(n) == IF n < MaxCount THEN n + 1 ELSE MaxCount

RECURSIVE SumOver(_, _)
SumOver(f, S) ==
    IF S = {} THEN 0
    ELSE LET x == CHOOSE y \in S : TRUE IN f[x] + SumOver(f, S \ {x})

(* The last two values, oldest first. *)
LastTwo(seq, v) == IF Len(seq) < 2 THEN Append(seq, v) ELSE <<seq[2], v>>

RECURSIVE SumSeq(_)
SumSeq(s) == IF s = <<>> THEN 0 ELSE Head(s) + SumSeq(Tail(s))

----------------------------------------------------------------------------
(* Construction: _initInverterState *)

InitInverterState(inv) ==
    [ present         |-> inv.regulation,   \* invState holds an entry for the inverter
      OldNewValue     |-> -1,
      FullPower       |-> FALSE,
      zusatzpower     |-> 0,
      TempMaxPower    |-> inv.maxPower,
      TempPrioOff     |-> FALSE,
      GapArray        |-> <<>>,
      GAPdurchschnitt |-> 0,
      LeiststungsGap  |-> 0,
      gapWait         |-> 0,
      LastSetNewValue |-> 0,
      dynamicWatts    |-> 0,
      batstate        |-> 0,
      sumPV           |-> 0,
      invOutputWatts  |-> 0,
      toBatPower      |-> 0,
      regulieren      |-> TRUE ]

(* The locals of one run() invocation.  pc = "idle": the slot holds no      *)
(* invocation.                                                              *)
IdleFrame ==
    [ pc |-> "idle", idx |-> 0, gridPower |-> 0, stale |-> FALSE, wrote |-> FALSE,
      NewValue |-> 0, gapSumme |-> 0, totalPSPV |-> 0, psBatSumme |-> 0,
      PVnum |-> 0, PVden |-> 1, Batnum |-> 1, Batden |-> 1,
      lastCut |-> 0, calcValue |-> 0, ueberschuss |-> 0 ]

(* The locals of one updateRealPower() invocation. *)
IdleUrp == [ pc |-> "idle", gridPower |-> 0, finite |-> TRUE, realPower |-> 0 ]

(* What the observer has seen, per inverter: set-points that run() wrote    *)
(* to the device (count and last value in watts), and the case that wrote   *)
(* the last one.  established: when start() or the last successful         *)
(* _reconnect stored the bridge's client.                                  *)
InitObs ==
    [ cmdCount  |-> [i \in Inverters |-> 0],
      cmdWatts  |-> [i \in Inverters |-> -1],
      callCount |-> [i \in Inverters |-> 0],
      callAt    |-> [i \in Inverters |-> 0],
      noBatSeen |-> [i \in Inverters |-> FALSE],
      spillIn   |-> [i \in Inverters |-> 0],
      overflow  |-> [i \in Inverters |-> 0],
      zusatzCmd |-> 0,
      published |-> <<>>,
      pubAfter  |-> [has |-> FALSE, last |-> 0],
      skipped   |-> 0,
      dropped   |-> 0,
      cycles    |-> 0,
      abortWrote |-> FALSE,
      frames    |-> <<>>,
      msgs      |-> 0,
      ticks     |-> 0,
      writes    |-> 0,
      publishes |-> 0,
      reconnects |-> 0,
      stopped   |-> FALSE,
      lastChange |-> [ack |-> TRUE, by |-> "none", kind |-> "none"],
      decoded   |-> [has |-> FALSE, topic |-> <<>>, headers |-> <<>>, typs |-> <<>>],
      established |-> 100000,
      binary    |-> [dropped |-> FALSE, lastTopic |-> 0, raw |-> 0, rawData |-> {},
                     subs |-> {}, writeables |-> {}],
      lastOp    |-> "init" ]

(* EcoflowPowerControl after _onReady: the regulation interval is armed.   *)
(* errors: "Regulation loop error" lines logged by the timer callback.     *)
InitAdapter == [ regulationInterval |-> TRUE, errors |-> 0 ]

(* The PowerStream devices of cfg.ecoflow.devices. *)
PSDevices == {1, 2}

(* Names a message object can have as its first field. *)
FieldNames == {"soc", "watts"}

(* EcoflowMqtt after start(): client created, watchdog armed, no message   *)
(* seen, empty suppression cache (keyed by first field name and topic:     *)
(* here one key per device).                                               *)
(* clients: broker clients created by mqtt.connect and not ended;          *)
(* reconnecting: _reconnect invocations suspended before their _connect;   *)
(* events: state changes of ecoflow.* states not yet delivered to          *)
(* _onStateChange.                                                          *)
InitBridge ==
    [ client            |-> TRUE,
      clients           |-> 1,
      reconnectWatchdog |-> TRUE,
      lastMsgTs         |-> [d \in PSDevices |-> 0],
      previousContents  |-> [k \in FieldNames \X PSDevices |->
                                 [has |-> FALSE, content |-> <<>>, timeStamp |-> 0]],
      reconnecting      |-> 0,
      stopping          |-> FALSE,
      lastTopicLock     |-> FALSE,
      events            |-> <<>> ]

(* State values as the host stores them: a number, a numeric string or a  *)
(* boolean.                                                                 *)
Num(n) == [t |-> "number", n |-> n]
Str(n) == [t |-> "string", n |-> n]
Bool(b) == [t |-> "boolean", n |-> IF b THEN 1 ELSE 0]

(* One host state as the StateManager helpers see it (absent at first),    *)
(* and the arguments and the result of the last helper call.               *)
InitStore ==
    [ state  |-> [present |-> FALSE, val |-> Num(0), ts |-> 0, lc |-> 0],
      result |-> [op |-> "none"] ]

(* cfg.excessCharge: the power state is always configured; the switch     *)
(* state and the SOC source are optional.  Thresholds in percent, powers   *)
(* in watts, durations in minutes.                                          *)
ExcessCfg(hasSwitch, hasSoc) ==
    [ powerStateId |-> TRUE, switchStateId |-> hasSwitch, batSocStateId |-> hasSoc,
      batSocOff |-> 95, batSocMax |-> 90,
      maxPower |-> 1000, offsetPower |-> 0, regulateSteps |-> 100,
      startPower |-> 200, stopPower |-> 50,
      startDurationMin |-> 10, switchMinMin |-> 30, minRegulatePauseMin |-> 10,
      switchOnValue |-> Bool(TRUE), switchOffValue |-> Bool(FALSE) ]

(* No command of the controller in a cycle. *)
NoCommands == [switchOn |-> FALSE, switchOff |-> FALSE, power |-> "none"]

(* The excess-charge controller after construction: excessChargeWasActive, *)
(* ueberschussTimer, the host states of the switch, the power level and    *)
(* the SOC source, and what the last cycle commanded.  dipped: a cycle     *)
(* since the start timer was started had a surplus at or below the start   *)
(* power.                                                                   *)
ExcessState(ec) ==
    [ ec |-> ec,
      excessChargeWasActive |-> FALSE,
      ueberschussTimer |-> 0,
      switch |-> InitStore.state,
      power  |-> InitStore.state,
      batSoc |-> 50,
      dipped |-> FALSE,
      cmds   |-> NoCommands ]

InitExcessState == ExcessState(ExcessCfg(TRUE, TRUE))

InitHost == [ realPower |-> 0, hasRealPower |-> FALSE, enabled |-> TRUE,
              prio |-> [i \in Inverters |-> FALSE],
              prioTs |-> [i \in Inverters |-> 0] ]

----------------------------------------------------------------------------
(* Output helpers: _setOutput, _setOutputRaw, setACForDevice *)

(* _setOutput: watts to the raw wire value (EcoFlow: x10). *)
RawOfWatts(inv, watts) == IF inv.type = "ecoflow" THEN watts * 10 ELSE watts

(* _setOutputRaw, the mirror's wattsDisplay: raw wire value back to watts. *)
WattsOfRaw(inv, raw) == IF inv.type = "ecoflow" THEN raw \div 10 ELSE raw

(* Whether _setOutputRaw reaches the device: through the bridge            *)
(* (setACForDevice returns at once when the bridge is not connected), or   *)
(* through the configured set-point state.                                 *)
Delivers(inv, connected) ==
    IF inv.type = "ecoflow" /\ cfg.hasBridge THEN connected ELSE inv.hasSetOutput

(* The observer's record after run() called _setOutputRaw(inv i, raw). *)
SetOutputRaw(o, i, raw) ==
    LET inv == cfg.inverters[i]
    IN [o EXCEPT !.callCount[i] = Inc(@),
                 !.callAt[i] = now,
                 !.cmdCount[i] = IF Delivers(inv, isConnected) THEN Inc(@) ELSE @,
                 !.cmdWatts[i] = IF Delivers(inv, isConnected)
                                 THEN WattsOfRaw(inv, raw) ELSE @]

SetOutput(o, i, watts) == SetOutputRaw(o, i, RawOfWatts(cfg.inverters[i], watts))

(* dynset of both distribution strategies *)
Dynset(Setpower, dynamicWatts) == Max(0, (Setpower - dynamicWatts) * 10)

----------------------------------------------------------------------------
(* Distribution: _distributeSerial *)

(* Processing order: the configured order, or its reverse. *)
Ordered(k) == IF cfg.serialReverse THEN NInv + 1 - k ELSE k

(* The carried remainder after one inverter took Setpower. *)
SerialRemainder(calcValue, Setpower) ==
    IF calcValue - Setpower <= 0 THEN 0 ELSE calcValue - Setpower

(* SerialSetpower without the clamp to the inverter's max power. *)
SerialSetpowerNoCap(st, NewValue, gapSumme, calcValue) ==
    LET s1 == IF st.GAPdurchschnitt < SerialGapLimit /\ gapSumme > 0
              THEN calcValue + gapSumme ELSE calcValue
    IN IF s1 > NewValue THEN NewValue ELSE s1

(* Setpower of one inverter: the remaining target, plus the cycle's gap    *)
(* total when the inverter's own gap average is small, clamped to the      *)
(* cycle target and to the inverter's temporary max power.                 *)
SerialSetpower(st, NewValue, gapSumme, calcValue) ==
    LET s1 == IF st.GAPdurchschnitt < SerialGapLimit /\ gapSumme > 0
              THEN calcValue + gapSumme ELSE calcValue
        s2 == IF s1 > NewValue THEN NewValue ELSE s1
    IN IF s2 > st.TempMaxPower THEN st.TempMaxPower ELSE s2

(* One iteration of the loop of _distributeSerial, for the invocation in   *)
(* slot c.                                                                  *)
DistributeSerialStep(c) ==
    LET f  == run[c]
        i  == Ordered(f.idx)
        st == invState[i]
        Setpower == SerialSetpower(st, f.NewValue, f.gapSumme, f.calcValue)
        last == f.idx = NInv
    IN /\ f.pc = "serial"
       /\ IF ~cfg.inverters[i].regulation \/ ~st.regulieren
          THEN /\ run' = [run EXCEPT ![c].idx = IF last THEN 0 ELSE f.idx + 1,
                                     ![c].pc = IF last THEN "end" ELSE "serial"]
               /\ obs' = [obs EXCEPT !.lastOp = "serialSkip"]
               /\ UNCHANGED invState
          ELSE /\ invState' = [invState EXCEPT ![i].OldNewValue = Setpower]
               /\ obs' = [ (IF st.OldNewValue # Setpower
                            THEN SetOutputRaw(obs, i, Dynset(Setpower, st.dynamicWatts))
                            ELSE obs) EXCEPT !.lastOp = "serial" ]
               /\ run' = [run EXCEPT ![c].calcValue = SerialRemainder(f.calcValue, Setpower),
                                     ![c].idx = IF last THEN 0 ELSE f.idx + 1,
                                     ![c].pc = IF last THEN "end" ELSE "serial"]
       /\ UNCHANGED <<adapter, bridge, store, excess, cfg, cutoff, batBedarf, regulationEnabled,
                      realPowerWorkInProgress, lastRealPower, hasLastRealPower,
                      isConnected, now, urp, host>>

----------------------------------------------------------------------------
(* Distribution: _distributeBalance *)

(* One iteration of the loop of _distributeBalance for an inverter with    *)
(* runtime state st, under the locals f of the cycle, with the engine's    *)
(* carried cutoff cut, at time t.  PVfaktor = PVnum / PVden and            *)
(* Batfaktor = Batnum / Batden; every intermediate Setpower is kept        *)
(* multiplied by D = PVden * Batden, so Math.floor is \div D.              *)
BalanceShare(st, f, cut, t) ==
    LET D  == f.PVden * f.Batden
        s0 == st.sumPV * f.PVnum * f.Batden
              + st.batstate * f.Batnum * f.PVden
              + f.lastCut * D
        s1 == IF s0 > f.NewValue * D THEN f.NewValue * D ELSE s0
        gapOn == \/ (st.GAPdurchschnitt < BalanceGapLimit /\ f.gapSumme > BalanceGapLimit)
                 \/ st.gapWait > t - GapWaitMs
        s2 == IF gapOn THEN s1 + (f.gapSumme - st.LeiststungsGap) * D ELSE s1
        mx == st.TempMaxPower * D
        over1 == s2 > mx
        s3 == IF over1 THEN mx ELSE s2 + cut * D
        over2 == ~over1 /\ s3 > mx
        s4 == IF over2 THEN mx ELSE s3
    IN [ Setpower |-> s4 \div D,
         cutoff   |-> IF over1 THEN (s2 - mx) \div D
                      ELSE IF over2 THEN (s3 - mx) \div D ELSE 0,
         gapWait  |-> IF gapOn THEN (IF st.gapWait = 0 THEN t ELSE st.gapWait) ELSE 0,
         spillIn  |-> IF over1 THEN 0 ELSE cut,
         capped   |-> over1 \/ over2 ]

DistributeBalanceStep(c) ==
    LET f  == run[c]
        i  == f.idx
        st == invState[i]
        b  == BalanceShare(st, f, cutoff, now)
        send == st.OldNewValue # b.Setpower \/ st.LastSetNewValue < now - RewriteMs
        last == f.idx = NInv
    IN /\ f.pc = "balance"
       /\ run' = [run EXCEPT ![c].idx = IF last THEN 0 ELSE f.idx + 1,
                             ![c].pc = IF last THEN "end" ELSE "balance"]
       /\ IF ~cfg.inverters[i].regulation \/ ~st.regulieren
          THEN /\ obs' = [obs EXCEPT !.lastOp = "balanceSkip"]
               /\ UNCHANGED <<invState, cutoff>>
          ELSE /\ cutoff' = b.cutoff
               /\ invState' = [invState EXCEPT
                      ![i].gapWait = b.gapWait,
                      ![i].LastSetNewValue = IF send THEN now ELSE @,
                      ![i].OldNewValue = b.Setpower]
               /\ obs' = [ (IF send
                            THEN SetOutputRaw(obs, i, Dynset(b.Setpower, st.dynamicWatts))
                            ELSE obs) EXCEPT !.lastOp = "balance",
                                             !.spillIn[i] = b.spillIn,
                                             !.overflow[i] = b.cutoff ]
       /\ UNCHANGED <<adapter, bridge, store, excess, cfg, batBedarf, regulationEnabled,
                      realPowerWorkInProgress, lastRealPower, hasLastRealPower,
                      isConnected, now, urp, host>>

----------------------------------------------------------------------------
(* run(), steps 5 and 6: gap averages, totals and the demand factors *)

(* GapArray after pushing one measurement (at most GAP_MESSUNGEN kept). *)
PushGap(arr, m) ==
    LET a == Append(arr, m)
    IN IF Len(a) > GAP_MESSUNGEN THEN Tail(a) ELSE a

(* GAPdurchschnitt: recomputed only once the window is full. *)
GapAverage(arr, old) ==
    IF Len(arr) = GAP_MESSUNGEN THEN SumSeq(arr) \div GAP_MESSUNGEN ELSE old

(* The inverters the cycle still regulates. *)
Regulated == {i \in Inverters : cfg.inverters[i].regulation /\ invState[i].regulieren}

(* Runtime state after the gap loop: only regulated inverters are touched. *)
GapUpdated ==
    [i \in Inverters |->
        IF i \in Regulated
        THEN LET arr == PushGap(invState[i].GapArray, invState[i].LeiststungsGap)
             IN [invState[i] EXCEPT !.GapArray = arr,
                                    !.GAPdurchschnitt = GapAverage(arr, @)]
        ELSE invState[i]]

(* The PV total with the 10 W bias added once for the whole cycle. *)
TotalPSPVBiasOnce(g) == SumOver([i \in Inverters |-> g[i].sumPV], Regulated) + PvBias

(* totalPSPV: the PV reading plus the bias, summed over the regulated      *)
(* inverters.                                                               *)
TotalPSPV(g) == SumOver([i \in Inverters |-> g[i].sumPV + PvBias], Regulated)

(* run() from the gap loop to the writes of excessPower and totalPV, for   *)
(* the invocation in slot c whose NewValue is already reduced by the       *)
(* unregulated feed-in.                                                     *)
Aggregate(c) ==
    LET f == run[c]
        g == GapUpdated
        gapSum  == SumOver([i \in Inverters |-> g[i].GAPdurchschnitt], Regulated)
        totalPV == TotalPSPV(g)
        batSum  == SumOver([i \in Inverters |-> g[i].batstate], Regulated)
        bedarf  == IF f.NewValue - totalPV > 0 THEN f.NewValue - totalPV ELSE 0
        PVBedarf == IF totalPV - f.NewValue > 0 THEN f.NewValue ELSE totalPV
        ueber   == Max(0, (0 - f.NewValue) - BasePowerOffset)
    IN /\ f.pc = "aggregate"
       /\ invState' = g
       /\ cutoff' = 0
       /\ batBedarf' = bedarf
       /\ run' = [run EXCEPT ![c] =
              [f EXCEPT !.pc = IF cfg.multiPsMode = 1 THEN "serial" ELSE "balance",
                        !.idx = 1,
                        !.gapSumme = IF gapSum > f.NewValue THEN f.NewValue ELSE gapSum,
                        !.totalPSPV = totalPV,
                        !.psBatSumme = batSum,
                        !.PVnum = IF totalPV # 0 THEN PVBedarf ELSE 0,
                        !.PVden = IF totalPV # 0 THEN totalPV ELSE 1,
                        !.Batnum = IF batSum # 0 THEN bedarf ELSE 1,
                        !.Batden = IF batSum # 0 THEN batSum ELSE 1,
                        !.lastCut = cutoff,
                        !.calcValue = f.NewValue,
                        !.ueberschuss = ueber]]
       /\ obs' = [obs EXCEPT !.lastOp = "aggregate"]
       /\ UNCHANGED <<adapter, bridge, store, excess, cfg, regulationEnabled,
                      realPowerWorkInProgress, lastRealPower, hasLastRealPower,
                      isConnected, now, urp, host>>

----------------------------------------------------------------------------
(* run(), step 2: the per-inverter pre-pass *)

NoOutput == [has |-> FALSE, watts |-> 0]
Output(w) == [has |-> TRUE, watts |-> w]

(* The settle-window test of the priority state's timestamp. *)
PrioSettled(ts, t) == ts < t + 60000

(* LeiststungsGap: 0 on the first cycle. *)
LeistungsGap(st) ==
    IF st.OldNewValue = -1 THEN 0
    ELSE (st.OldNewValue + st.dynamicWatts) - st.invOutputWatts

(* Case: no battery attached.  The set-point is sent once, FullPower       *)
(* latches, and the inverter is excluded from the distribution.            *)
NoBatteryCase(st, inv) ==
    [ st   |-> [st EXCEPT !.FullPower = TRUE,
                          !.OldNewValue = IF st.FullPower THEN @ ELSE inv.maxPower,
                          !.regulieren = FALSE],
      out  |-> IF st.FullPower THEN NoOutput ELSE Output(inv.maxPower),
      prio |-> "keep" ]

(* Cases: battery full (priority mode or full power), battery recovered. *)
BatteryCase(st, inv, PrioMode, PrioModeTS, bedarf, t) ==
    IF (st.batstate >= inv.battPozOn \/ (st.batstate >= inv.battPozOff /\ st.TempPrioOff))
       /\ st.regulieren
    THEN IF inv.battOnSwitchPrio
         THEN IF ~PrioMode /\ bedarf <= inv.prioOffOnDemand /\ PrioSettled(PrioModeTS, t)
              THEN [ st |-> [st EXCEPT !.OldNewValue = inv.maxPower,
                                       !.regulieren = FALSE,
                                       !.TempPrioOff = TRUE],
                     out |-> Output(inv.maxPower), prio |-> "on" ]
              ELSE IF PrioMode
                   THEN IF bedarf > inv.prioOffOnDemand /\ inv.prioOffOnDemand # 0
                        THEN IF PrioSettled(PrioModeTS, t)
                             THEN [ st |-> [st EXCEPT !.regulieren = TRUE],
                                    out |-> NoOutput, prio |-> "off" ]
                             ELSE [ st |-> [st EXCEPT !.regulieren = FALSE],
                                    out |-> NoOutput, prio |-> "keep" ]
                        ELSE [ st |-> [st EXCEPT !.regulieren = FALSE],
                               out |-> NoOutput, prio |-> "keep" ]
                   ELSE [ st |-> st, out |-> NoOutput, prio |-> "keep" ]
         ELSE [ st |-> [st EXCEPT !.TempPrioOff = FALSE,
                                  !.FullPower = TRUE,
                                  !.OldNewValue = IF st.FullPower THEN @ ELSE inv.maxPower,
                                  !.regulieren = FALSE],
                out |-> IF st.FullPower THEN NoOutput ELSE Output(inv.maxPower),
                prio |-> "keep" ]
    ELSE IF st.batstate <= inv.battPozOff /\ st.regulieren
         THEN [ st |-> [st EXCEPT !.TempPrioOff = FALSE,
                                  !.FullPower = FALSE,
                                  !.regulieren = TRUE],
                out |-> NoOutput,
                prio |-> IF inv.battOnSwitchPrio /\ PrioMode THEN "off" ELSE "keep" ]
         ELSE [ st |-> st, out |-> NoOutput, prio |-> "keep" ]

(* Low battery limit on the temporary max power. *)
LowBatteryLimit(st, inv) ==
    IF st.batstate < inv.lowBatLimitPozOn /\ st.regulieren
    THEN [st EXCEPT !.TempMaxPower = inv.lowBatLimit]
    ELSE IF st.batstate >= inv.lowBatLimitPozOff /\ st.regulieren
              /\ st.TempMaxPower = inv.lowBatLimit
         THEN [st EXCEPT !.TempMaxPower = inv.maxPower]
         ELSE st

(* The battery charges at its maximum rate. *)
MaxCharging(st, inv) == st.toBatPower <= 0 - (inv.maxPower - BAT_MAX_OFFSET)

(* Zusatzpower ramping down twice as fast. *)
ZusatzDownFast(z) == z - 2 * ZUSATZPOWER_INCREMENT

(* Zusatzpower one step down. *)
ZusatzDown(z) == z - ZUSATZPOWER_INCREMENT

(* Zusatzpower one step up: seeded with the current output when it is 0;   *)
(* no step at or above the ceiling.                                         *)
ZusatzUp(z, invOutputWatts) ==
    IF z < ZusatzLimit
    THEN (IF z = 0 THEN invOutputWatts ELSE z) + ZUSATZPOWER_INCREMENT
    ELSE z

(* The Zusatzpower state machine of one inverter that is still regulated.  *)
Zusatzpower(st, inv, bedarf) ==
    IF ~st.regulieren THEN [ st |-> st, out |-> NoOutput ]
    ELSE IF MaxCharging(st, inv)
    THEN LET z == ZusatzUp(st.zusatzpower, st.invOutputWatts)
         IN [ st |-> [st EXCEPT !.zusatzpower = z,
                                !.OldNewValue = IF st.zusatzpower < ZusatzLimit THEN z ELSE @,
                                !.regulieren = FALSE],
              out |-> IF st.zusatzpower < ZusatzLimit THEN Output(z) ELSE NoOutput ]
    ELSE IF st.toBatPower >= 0 - (inv.maxPower - ImmediateOffMargin) /\ st.zusatzpower > 0
    THEN [ st |-> [st EXCEPT !.zusatzpower = 0, !.regulieren = TRUE], out |-> NoOutput ]
    ELSE IF st.zusatzpower > 0 /\ bedarf + BatDemandMargin > st.zusatzpower
    THEN [ st |-> [st EXCEPT !.zusatzpower = 0, !.regulieren = TRUE], out |-> NoOutput ]
    ELSE LET z == ZusatzDown(st.zusatzpower)
         IN IF z > 0
            THEN [ st |-> [st EXCEPT !.zusatzpower = z, !.OldNewValue = z,
                                     !.regulieren = FALSE],
                   out |-> Output(z) ]
            ELSE [ st |-> [st EXCEPT !.zusatzpower = 0, !.regulieren = TRUE],
                   out |-> NoOutput ]

(* The pre-pass of one inverter after its readings were taken: the new     *)
(* runtime state, the set-points sent (special case, then Zusatzpower) and *)
(* the priority write.                                                      *)
PrePass(st0, inv, PrioMode, PrioModeTS, bedarf, t) ==
    LET st == [st0 EXCEPT !.LeiststungsGap = LeistungsGap(st0)]
    IN IF ~inv.hasBat
       THEN LET n == NoBatteryCase(st, inv)
            IN [ st |-> n.st, out |-> n.out, zout |-> NoOutput, prio |-> n.prio ]
       ELSE LET b == BatteryCase(st, inv, PrioMode, PrioModeTS, bedarf, t)
                z == Zusatzpower(LowBatteryLimit(b.st, inv), inv, bedarf)
            IN [ st |-> z.st, out |-> b.out, zout |-> z.out, prio |-> b.prio ]

----------------------------------------------------------------------------
(* run(): the steps of one invocation, from one suspension point to the    *)
(* next group of engine-state accesses                                      *)

UnchangedRealPower == UNCHANGED <<realPowerWorkInProgress, lastRealPower, hasLastRealPower, urp>>

LeastIdle(c) == run[c].pc = "idle" /\ \A d \in Slots : d < c => run[d].pc # "idle"

(* The slots that hold a run() invocation. *)
Running == {c \in Slots : run[c].pc # "idle"}

(* The timer callback of _onReady calls run(): enable check, smart-meter   *)
(* read (sm: whether the state exists, whether it is too old, its value)   *)
(* and the write of regulation.gridPower.  Nothing keeps the callback from *)
(* firing while an earlier invocation is still suspended.                   *)
RunStartWithin(limit, c, enabledVal, sm) ==
    /\ adapter.regulationInterval
    /\ LeastIdle(c)
    /\ obs.cycles < limit
    /\ regulationEnabled' = enabledVal
    /\ IF ~enabledVal \/ ~cfg.hasSmartmeter \/ ~sm.present
       THEN /\ run' = run
            /\ obs' = [obs EXCEPT !.cycles = @ + 1, !.lastOp = "runOff"]
       ELSE /\ run' = [run EXCEPT ![c] =
                   [IdleFrame EXCEPT !.pc = "pre", !.idx = 1,
                                     !.wrote = TRUE,
                                     !.stale = sm.stale,
                                     !.gridPower = IF sm.stale THEN FallbackPower ELSE sm.val]]
            /\ obs' = [obs EXCEPT !.cycles = @ + 1, !.lastOp = "runStart"]
    /\ UNCHANGED <<adapter, bridge, store, excess, cfg, invState, cutoff, batBedarf, isConnected, now, host>>
    /\ UnchangedRealPower

RunStart(c, enabledVal, sm) == RunStartWithin(MaxCycles, c, enabledVal, sm)

(* The read helpers: EcoFlow states carry watts x 10; dynamicWatts and     *)
(* batInputWatts exist only for EcoFlow inverters behind the bridge.       *)
ReadWatts(inv, raw) == IF inv.type = "ecoflow" THEN raw \div 10 ELSE raw
ReadBridgeWatts(inv, raw) ==
    IF inv.type # "ecoflow" \/ ~cfg.hasBridge THEN 0 ELSE raw \div 10

(* Pre-pass of inverter idx, first part: regulieren is set again and the   *)
(* readings r are stored.                                                   *)
PreBegin(c, r) ==
    LET f == run[c]
        i == f.idx
        inv == cfg.inverters[i]
    IN /\ f.pc = "pre"
       /\ IF ~inv.regulation
          THEN /\ run' = [run EXCEPT ![c].idx = IF i = NInv THEN 0 ELSE i + 1,
                                     ![c].pc = IF i = NInv THEN "lowest" ELSE "pre"]
               /\ UNCHANGED invState
          ELSE /\ run' = [run EXCEPT ![c].pc = "decide"]
               /\ invState' = [invState EXCEPT
                      ![i].regulieren = TRUE,
                      ![i].invOutputWatts = ReadWatts(inv, r.out),
                      ![i].batstate = r.soc,
                      ![i].sumPV = ReadWatts(inv, r.pv),
                      ![i].dynamicWatts = ReadBridgeWatts(inv, r.dyn),
                      ![i].toBatPower = ReadBridgeWatts(inv, r.bat)]
       /\ obs' = [obs EXCEPT !.lastOp = "preBegin"]
       /\ UNCHANGED <<adapter, bridge, store, excess, cfg, cutoff, batBedarf, regulationEnabled, isConnected, now, host>>
       /\ UnchangedRealPower

(* Pre-pass of inverter idx, second part: the special cases and the        *)
(* Zusatzpower state machine, with the set-points and the priority write   *)
(* they send.                                                               *)
PreDecide(c) ==
    LET f == run[c]
        i == f.idx
        inv == cfg.inverters[i]
        PrioMode == inv.hasPrioState /\ host.prio[i]
        PrioModeTS == IF inv.hasPrioState THEN host.prioTs[i] ELSE 0
        p == PrePass(invState[i], inv, PrioMode, PrioModeTS, batBedarf, now)
        o1 == IF p.out.has THEN SetOutput(obs, i, p.out.watts) ELSE obs
        o2 == IF p.zout.has THEN SetOutput(o1, i, p.zout.watts) ELSE o1
    IN /\ f.pc = "decide"
       /\ invState' = [invState EXCEPT ![i] = p.st]
       /\ host' = IF p.prio # "keep" /\ inv.hasPrioState
                  THEN [host EXCEPT !.prio[i] = (p.prio = "on"), !.prioTs[i] = now]
                  ELSE host
       /\ obs' = [o2 EXCEPT !.noBatSeen[i] = @ \/ ~inv.hasBat,
                            !.zusatzCmd = IF p.zout.has THEN p.zout.watts ELSE @,
                            !.lastOp = "preDecide"]
       /\ run' = [run EXCEPT ![c].idx = IF i = NInv THEN 0 ELSE i + 1,
                             ![c].pc = IF i = NInv THEN "lowest" ELSE "pre"]
       /\ UNCHANGED <<adapter, bridge, store, excess, cfg, cutoff, batBedarf, regulationEnabled, isConnected, now>>
       /\ UnchangedRealPower

(* _getLowestValue on a non-empty history result: minimum or average. *)
RECURSIVE MinSeq(_)
MinSeq(s) == IF Len(s) = 1 THEN s[1] ELSE Min(Head(s), MinSeq(Tail(s)))

GetLowestValue(values, minValueAg) ==
    IF minValueAg = 0 THEN MinSeq(values) ELSE SumSeq(values) \div Len(values)

(* Output of the inverters that are excluded from regulation but feed in. *)
OtherPS ==
    SumOver([i \in Inverters |-> invState[i].invOutputWatts],
            {i \in Inverters : cfg.inverters[i].regulation /\ ~invState[i].regulieren})

(* run(), steps 3 to 5 up to the additional-power read: the fallback write *)
(* of regulation.realPower, the history query (values: its result, empty   *)
(* for an error or no data), the return when the lowest value is 0, and    *)
(* the target reduced by the unregulated feed-in.                          *)
Lowest(c, values) ==
    LET f == run[c]
        h == IF f.stale
             THEN [host EXCEPT !.realPower = FallbackPower, !.hasRealPower = TRUE]
             ELSE host
        lowestValue == IF values # <<>> THEN GetLowestValue(values, cfg.minValueAg)
                       ELSE IF h.hasRealPower THEN h.realPower ELSE f.gridPower
    IN /\ f.pc = "lowest"
       /\ host' = h
       /\ IF lowestValue = 0
          THEN /\ run' = [run EXCEPT ![c] = IdleFrame]
               /\ obs' = [obs EXCEPT !.lastOp = "runAbort",
                                      !.abortWrote = f.wrote \/ f.stale]
          ELSE /\ run' = [run EXCEPT ![c].pc = "aggregate",
                                     ![c].NewValue = (lowestValue - BasePowerOffset) - OtherPS]
               /\ obs' = [obs EXCEPT !.lastOp = "lowest"]
       /\ UNCHANGED <<adapter, bridge, store, excess, cfg, invState, cutoff, batBedarf, regulationEnabled, isConnected, now>>
       /\ UnchangedRealPower

(* run() returns after the distribution (no excess-charge load is          *)
(* configured).                                                             *)
RunReturn(c) ==
    /\ run[c].pc = "end"
    /\ run' = [run EXCEPT ![c] = IdleFrame]
    /\ obs' = [obs EXCEPT !.lastOp = "runReturn"]
    /\ UNCHANGED <<adapter, bridge, store, excess, cfg, invState, cutoff, batBedarf, regulationEnabled, isConnected, now, host>>
    /\ UnchangedRealPower

(* The catch block of the timer callback: it logs and leaves the interval *)
(* handle alone.                                                            *)
TimerAfterCatchCleared(interval) == FALSE

TimerAfterCatch(interval) == interval

(* An awaited host or device call of run() rejects: the invocation ends    *)
(* where it was suspended and the timer callback catches the error.        *)
RunThrow(c) ==
    /\ run[c].pc # "idle"
    /\ run' = [run EXCEPT ![c] = IdleFrame]
    /\ adapter' = [adapter EXCEPT !.errors = Inc(@),
                                  !.regulationInterval = TimerAfterCatch(@)]
    /\ obs' = [obs EXCEPT !.lastOp = "runThrow"]
    /\ UNCHANGED <<bridge, store, excess, cfg, invState, cutoff, batBedarf, regulationEnabled,
                   isConnected, now, host>>
    /\ UnchangedRealPower

(* The broker client's connect and close events. *)
BridgeConnect ==
    /\ cfg.hasBridge /\ ~isConnected
    /\ bridge.client
    /\ isConnected' = TRUE
    /\ obs' = [obs EXCEPT !.lastOp = "connect"]
    /\ UNCHANGED <<adapter, bridge, store, excess, cfg, invState, cutoff, batBedarf, regulationEnabled, now, run, host>>
    /\ UnchangedRealPower

BridgeClose ==
    /\ cfg.hasBridge /\ isConnected
    /\ isConnected' = FALSE
    /\ obs' = [obs EXCEPT !.lastOp = "close"]
    /\ UNCHANGED <<adapter, bridge, store, excess, cfg, invState, cutoff, batBedarf, regulationEnabled, now, run, host>>
    /\ UnchangedRealPower

----------------------------------------------------------------------------
(* EcoflowMqtt: inbound frames and the suppression cache *)

(* A frame on the topic of device d: JSON text or a binary protobuf frame, *)
(* a body and the embedded latestTimeStamp field.                          *)
Frame(kind, d, body, ts) == [kind |-> kind, device |-> d, body |-> body, latestTimeStamp |-> ts]

(* The object of a JSON message (params, or the message itself): its      *)
(* first field and the fields after it.                                    *)
Body(first, rest) == <<first, rest>>

(* _checkAndStore: Object.keys(data)[0] *)
FirstKey(body) == body[1]

(* _checkAndStore: the serialized copy with latestTimeStamp set to 0. *)
Content(frame) == <<frame.device, frame.body, 0>>

(* _checkAndStore: the cache key, first field name and topic. *)
Key(frame) == <<FirstKey(frame.body), frame.device>>

(* _checkAndStore: FALSE for content identical to the stored one and for   *)
(* any content that arrives less than minAge after the stored one; else    *)
(* the content is stored with its arrival time.                            *)
CheckAndStoreInclusive(prev, content, minAge, t) ==
    IF prev.has /\ (prev.content = content \/ t - prev.timeStamp <= minAge)
    THEN [ accept |-> FALSE, prev |-> prev ]
    ELSE [ accept |-> TRUE, prev |-> [has |-> TRUE, content |-> content, timeStamp |-> t] ]

CheckAndStore(prev, content, minAge, t) ==
    IF prev.has /\ (prev.content = content \/ t - prev.timeStamp < minAge)
    THEN [ accept |-> FALSE, prev |-> prev ]
    ELSE [ accept |-> TRUE, prev |-> [has |-> TRUE, content |-> content, timeStamp |-> t] ]

(* _handleMessage for a frame the client delivers: lastMsgTs, then for     *)
(* JSON the suppression check before the RAW state and the sub-states are  *)
(* written; a binary frame goes to _handleBinaryMessage, which writes the  *)
(* RAW state of every frame it can decode.                                 *)
HandleMessageWithin(limit, frame) ==
    LET c == CheckAndStore(bridge.previousContents[Key(frame)], Content(frame),
                           DedupMinAge, now)
        updated == frame.kind = "binary" \/ c.accept
    IN /\ bridge.client
       /\ obs.msgs < limit
       /\ bridge' = [bridge EXCEPT
              !.lastMsgTs[frame.device] = now,
              !.previousContents[Key(frame)] = IF frame.kind = "json" THEN c.prev ELSE @]
       /\ obs' = [obs EXCEPT
              !.msgs = @ + 1,
              !.frames = LastTwo(@, [kind |-> frame.kind, content |-> Content(frame),
                                     at |-> now, updated |-> updated]),
              !.lastOp = "message"]
       /\ UNCHANGED <<adapter, store, excess, cfg, invState, cutoff, batBedarf, regulationEnabled,
                      isConnected, now, run, host>>
       /\ UnchangedRealPower

HandleMessage(frame) == HandleMessageWithin(MaxMsgs, frame)

(* Topics and state ids as the code's regular expressions see them: the   *)
(* segments, the character that separates them, and whether the string     *)
(* starts with a separator.                                                 *)
Topic(segs) == [lead |-> TRUE, sep |-> "/", segs |-> segs]

(* _subscribeDevices: the three topics of a device. *)
SetTopic(uid, sn) == Topic(<<"app", uid, sn, "thing", "property", "set">>)
GetTopic(uid, sn) == Topic(<<"app", uid, sn, "thing", "property", "get">>)
PropertyTopic(sn) == Topic(<<"app", "device", "property", sn>>)

(* _handleMessage: topic.replace(/^\//, '').replace(/\//g, '_') *)
MqState(topic) ==
    [lead |-> FALSE, sep |-> IF topic.sep = "/" THEN "_" ELSE topic.sep, segs |-> topic.segs]

(* _extractSerial: /\/app\/device\/property\/([A-Za-z0-9]+)/ first, then    *)
(* /\/app\/[^/]+\/([A-Za-z0-9]+)\//; "" stands for null.  Both expressions  *)
(* need a "/" before "app" and between the segments, and the second one a  *)
(* "/" after the serial.                                                     *)
ExtractSerial(t) ==
    IF t.sep # "/" \/ ~t.lead \/ Len(t.segs) < 4 \/ t.segs[1] # "app" THEN ""
    ELSE IF t.segs[2] = "device" /\ t.segs[3] = "property" THEN t.segs[4]
    ELSE t.segs[3]

(* this.cfg.devices.find(d => d.serial === sn): the first match, typ ""    *)
(* when there is none.                                                       *)
RECURSIVE FindDevice(_, _)
FindDevice(devices, sn) ==
    IF devices = <<>> THEN [serial |-> "", typ |-> ""]
    ELSE IF Head(devices).serial = sn THEN Head(devices)
    ELSE FindDevice(Tail(devices), sn)

(* _decodeAndPrint, per header: the serial of the header or else of        *)
(* _extractSerial(mqState), the configured device with that serial, and    *)
(* the type the catalog is searched with ('PS' without a device).          *)
HeaderTyp(header, mqState, devices) ==
    LET sn == IF header.deviceSn # "" THEN header.deviceSn ELSE ExtractSerial(mqState)
        device == IF sn # "" THEN FindDevice(devices, sn) ELSE [serial |-> "", typ |-> ""]
    IN IF device.typ # "" THEN device.typ ELSE "PS"

(* _handleBinaryMessage for a frame on a subscribed topic: every header is *)
(* decoded with the state id _handleMessage derived from the topic.        *)
DecodeAndPrint(topic, headers, devices) ==
    /\ bridge.client
    /\ obs.msgs < MaxMsgs
    /\ obs' = [obs EXCEPT
           !.msgs = @ + 1,
           !.decoded = [has |-> TRUE, topic |-> topic, headers |-> headers,
                        typs |-> [k \in 1..Len(headers) |->
                                     HeaderTyp(headers[k], MqState(topic), devices)]],
           !.lastOp = "decode"]
    /\ UNCHANGED <<adapter, bridge, store, excess, cfg, invState, cutoff, batBedarf,
                   regulationEnabled, isConnected, now, run, host>>
    /\ UnchangedRealPower

(* The writeable command catalog (WRITEABLES), the PowerStream and smart   *)
(* plug entries the frames of the model can name.                          *)
Writeables ==
    << [id |-> 1, name |-> "InverterHeartbeat", Typ |-> "PS", Templet |-> "InverterHeartbeat",
        writeable |-> FALSE, Ignor |-> FALSE, cmdFunc |-> 20],
       [id |-> 32, name |-> "PowerPack_32", Typ |-> "PS", Templet |-> "PowerPack32",
        writeable |-> FALSE, Ignor |-> TRUE, cmdFunc |-> 254],
       [id |-> 134, name |-> "Ignor", Typ |-> "PS", Templet |-> "",
        writeable |-> FALSE, Ignor |-> TRUE, cmdFunc |-> 20],
       [id |-> 135, name |-> "SetDisplayBrightness", Typ |-> "PS", Templet |-> "setValue",
        writeable |-> TRUE, Ignor |-> FALSE, cmdFunc |-> 20],
       [id |-> 133, name |-> "PowerPack_133", Typ |-> "SM", Templet |-> "PowerPack133",
        writeable |-> FALSE, Ignor |-> TRUE, cmdFunc |-> 2],
       [id |-> 1, name |-> "plug_heartbeat_pack", Typ |-> "SM", Templet |-> "plug_heartbeat_pack",
        writeable |-> FALSE, Ignor |-> FALSE, cmdFunc |-> 2] >>

(* _decodeAndPrint: WRITEABLES.find(...) || { name: 'nichtDefiniert', ... } *)
RECURSIVE MatchedEntry(_, _, _)
MatchedEntry(entries, header, typ) ==
    IF entries = <<>>
    THEN [id |-> header.cmdId, name |-> "nichtDefiniert", Typ |-> typ,
          Templet |-> "nichtDefiniert", writeable |-> FALSE, Ignor |-> FALSE,
          cmdFunc |-> header.cmdFunc]
    ELSE IF /\ Head(entries).id = header.cmdId
            /\ Head(entries).cmdFunc = header.cmdFunc
            /\ Head(entries).Typ = typ
         THEN Head(entries)
         ELSE MatchedEntry(Tail(entries), header, typ)

(* _decodeAndPrint: the entry makes the loop skip the header. *)
Skipped(entry) == entry.Ignor \/ entry.Templet = "nichtDefiniert" \/ entry.Templet = ""

(* mqState.includes('thing_property_set') *)
IsSetState(mqState) ==
    /\ mqState.sep = "_" /\ Len(mqState.segs) = 6
    /\ mqState.segs[4] = "thing" /\ mqState.segs[5] = "property" /\ mqState.segs[6] = "set"

(* _decodeAndPrint, the loop over the headers from header k on: the output *)
(* object (its keys), the writeable states _setWriteableState was called   *)
(* for, and whether PdataMessage.decode threw.                             *)
RECURSIVE DecodeHeadersFrom(_, _, _, _, _)
DecodeHeadersFrom(headers, k, mqState, devices, acc) ==
    IF k > Len(headers) THEN acc
    ELSE LET header == headers[k]
             entry == MatchedEntry(Writeables, header, HeaderTyp(header, mqState, devices))
         IN IF Skipped(entry) THEN DecodeHeadersFrom(headers, k + 1, mqState, devices, acc)
            ELSE IF ~header.pdataOk THEN [acc EXCEPT !.threw = TRUE]
            ELSE DecodeHeadersFrom(headers, k + 1, mqState, devices,
                     [acc EXCEPT
                         !.out = @ \cup {entry.Templet},
                         !.writeables = IF entry.writeable /\ IsSetState(mqState)
                                        THEN @ \cup {entry.name} ELSE @])

(* _decodeAndPrint: '{}' when the frame or a sub-message cannot be         *)
(* decoded, else JSON.stringify({ data: outputObject }).                   *)
DecodeResult(frame, mqState, devices) ==
    LET r == IF frame.malformed THEN [threw |-> TRUE, out |-> {}, writeables |-> {}]
             ELSE DecodeHeadersFrom(frame.headers, 1, mqState, devices,
                                    [threw |-> FALSE, out |-> {}, writeables |-> {}])
    IN [ empty |-> r.threw, data |-> r.out, writeables |-> r.writeables ]

(* Every header of the frame is skipped by the catalog lookup. *)
AllSkipped(frame, mqState, devices) ==
    \A k \in 1..Len(frame.headers) :
        Skipped(MatchedEntry(Writeables, frame.headers[k],
                             HeaderTyp(frame.headers[k], mqState, devices)))

(* _handleMessage for a message that is no JSON text: lastMsgTs, the       *)
(* throttled ecoflow.lastTopic write, then _handleBinaryMessage, which     *)
(* returns for '{}' and else writes the RAW state and the decoded fields.  *)
HandleBinaryMessage(topic, frame, devices) ==
    LET mqState == MqState(topic)
        r == DecodeResult(frame, mqState, devices)
    IN /\ bridge.client
       /\ obs.msgs < MaxMsgs
       /\ bridge' = [bridge EXCEPT !.lastTopicLock = TRUE]
       /\ obs' = [obs EXCEPT
              !.msgs = @ + 1,
              !.binary = [dropped |-> frame.malformed \/ AllSkipped(frame, mqState, devices),
                          lastTopic |-> IF bridge.lastTopicLock THEN @.lastTopic
                                        ELSE @.lastTopic + 1,
                          raw |-> IF r.empty THEN @.raw ELSE @.raw + 1,
                          rawData |-> IF r.empty THEN @.rawData ELSE r.data,
                          subs |-> IF r.empty THEN @.subs ELSE @.subs \cup r.data,
                          writeables |-> @.writeables \cup r.writeables],
              !.lastOp = "binary"]
       /\ UNCHANGED <<adapter, store, excess, cfg, invState, cutoff, batBedarf,
                      regulationEnabled, isConnected, now, run, host>>
       /\ UnchangedRealPower

(* The timer _handleMessage arms after the ecoflow.lastTopic write. *)
LastTopicUnlock ==
    /\ bridge.lastTopicLock
    /\ bridge' = [bridge EXCEPT !.lastTopicLock = FALSE]
    /\ obs' = [obs EXCEPT !.lastOp = "unlock"]
    /\ UNCHANGED <<adapter, store, excess, cfg, invState, cutoff, batBedarf,
                   regulationEnabled, isConnected, now, run, host>>
    /\ UnchangedRealPower

(* Time passes. *)
AdvanceTime(d) ==
    /\ obs.ticks < MaxTicks
    /\ now' = now + d
    /\ obs' = [obs EXCEPT !.ticks = @ + 1, !.lastOp = "time"]
    /\ UNCHANGED <<adapter, bridge, store, excess, cfg, invState, cutoff, batBedarf,
                   regulationEnabled, isConnected, run, host>>
    /\ UnchangedRealPower

----------------------------------------------------------------------------
(* EcoflowMqtt: outgoing writes *)

(* A state change of an ecoflow.* state: the setAC state or one of the     *)
(* catalogued writeables of a configured device.                           *)
Change(ack, by, kind) == [ack |-> ack, by |-> by, kind |-> kind]

(* Something writes the state: a user or script (ack false), or any writer *)
(* that acknowledges (ack true).                                            *)
HostWrite(ack, kind) ==
    /\ obs.writes < MaxWrites
    /\ bridge' = [bridge EXCEPT !.events = Append(@, Change(ack, "user", kind))]
    /\ obs' = [obs EXCEPT !.writes = @ + 1, !.lastOp = "hostWrite"]
    /\ UNCHANGED <<adapter, store, excess, cfg, invState, cutoff, batBedarf, regulationEnabled,
                   isConnected, now, run, host>>
    /\ UnchangedRealPower

(* The test for acknowledged changes, answering FALSE for every change. *)
IsEchoNever(change) == FALSE

(* _onStateChange and onWriteableStateChange: acknowledged changes are     *)
(* not forwarded.                                                           *)
IsEcho(change) == change.ack

(* The acknowledging writes that follow a publish: setACForDevice mirrors  *)
(* the value and onWriteableStateChange acknowledges it; a writeable is    *)
(* acknowledged once.                                                       *)
Acknowledgements(kind) ==
    IF kind = "setAC" THEN <<Change(TRUE, "bridge", kind), Change(TRUE, "bridge", kind)>>
    ELSE <<Change(TRUE, "bridge", kind)>>

(* _onStateChange, ecoflow branch, for the oldest undelivered change:      *)
(* onWriteableStateChange publishes one frame with qos 1 (_sendProto or    *)
(* _sendJSON) and acknowledges the state.                                   *)
OnStateChange ==
    LET e == Head(bridge.events)
        forward == ~IsEcho(e) /\ isConnected /\ bridge.client
    IN /\ bridge.events # <<>>
       /\ bridge' = [bridge EXCEPT
              !.events = IF forward THEN Tail(@) \o Acknowledgements(e.kind) ELSE Tail(@)]
       /\ obs' = [obs EXCEPT
              !.publishes = IF forward THEN Inc(@) ELSE @,
              !.lastChange = e,
              !.lastOp = "stateChange"]
       /\ UNCHANGED <<adapter, store, excess, cfg, invState, cutoff, batBedarf, regulationEnabled,
                      isConnected, now, run, host>>
       /\ UnchangedRealPower

----------------------------------------------------------------------------
(* The user switches regulation on or off: _onStateChange for              *)
(* regulation.enabled, handleDisabled and handleEnabled                    *)

(* handleDisabled, the set-points: every regulation-enabled inverter from  *)
(* k on with a regulationOffPower >= 0 is set to it.                       *)
RECURSIVE HandleDisabledOutputs(_, _)
HandleDisabledOutputs(o, k) ==
    IF k > NInv THEN o
    ELSE LET inv == cfg.inverters[k]
         IN HandleDisabledOutputs(
                IF inv.regulation /\ inv.regulationOffPower >= 0
                THEN SetOutput(o, k, inv.regulationOffPower) ELSE o,
                k + 1)

(* handleDisabled: the off power is sent and OldNewValue set to 0; with    *)
(* regulationOffPower -2 and a priority state the priority mode is         *)
(* switched on instead.                                                     *)
HandleDisabled ==
    /\ invState' = [i \in Inverters |->
           IF cfg.inverters[i].regulation /\ cfg.inverters[i].regulationOffPower >= 0
           THEN [invState[i] EXCEPT !.OldNewValue = 0] ELSE invState[i]]
    /\ host' = [host EXCEPT
           !.enabled = FALSE,
           !.prio = [i \in Inverters |->
                        IF /\ cfg.inverters[i].regulation
                           /\ cfg.inverters[i].regulationOffPower = -2
                           /\ cfg.inverters[i].hasPrioState
                        THEN TRUE ELSE @[i]],
           !.prioTs = [i \in Inverters |->
                        IF /\ cfg.inverters[i].regulation
                           /\ cfg.inverters[i].regulationOffPower = -2
                           /\ cfg.inverters[i].hasPrioState
                        THEN now ELSE @[i]]]
    /\ obs' = [HandleDisabledOutputs(obs, 1) EXCEPT !.writes = @ + 1,
                                                    !.lastOp = "handleDisabled"]

(* handleEnabled: priority mode is switched off where handleDisabled       *)
(* switches it on.                                                          *)
HandleEnabled ==
    /\ invState' = invState
    /\ host' = [host EXCEPT
           !.enabled = TRUE,
           !.prio = [i \in Inverters |->
                        IF /\ cfg.inverters[i].regulation
                           /\ cfg.inverters[i].regulationOffPower = -2
                           /\ cfg.inverters[i].hasPrioState
                        THEN FALSE ELSE @[i]],
           !.prioTs = [i \in Inverters |->
                        IF /\ cfg.inverters[i].regulation
                           /\ cfg.inverters[i].regulationOffPower = -2
                           /\ cfg.inverters[i].hasPrioState
                        THEN now ELSE @[i]]]
    /\ obs' = [obs EXCEPT !.writes = @ + 1, !.lastOp = "handleEnabled"]

(* _onStateChange for a user write (ack false) of regulation.enabled: the  *)
(* state is acknowledged, regulationEnabled follows it, and handleDisabled *)
(* or handleEnabled runs.                                                   *)
OnEnabledChange(enabled) ==
    /\ obs.writes < MaxWrites
    /\ regulationEnabled' = enabled
    /\ IF enabled THEN HandleEnabled ELSE HandleDisabled
    /\ UNCHANGED <<adapter, bridge, store, excess, cfg, cutoff, batBedarf,
                   isConnected, now, run>>
    /\ UnchangedRealPower

(* The steps of a run() invocation, by the name the observer gives them. *)
RunOps == {"runStart", "runOff", "preBegin", "preDecide", "lowest", "runAbort",
           "aggregate", "serial", "serialSkip", "balance", "balanceSkip", "runReturn"}

----------------------------------------------------------------------------
(* EcoflowMqtt: reconnect watchdog, _reconnect, stop *)

(* The silence test that never finds a device silent. *)
SilentNever(t, lastTs) == FALSE

(* The silence test of the watchdog: lastTs is 0 for a device that has     *)
(* sent nothing yet.                                                        *)
Silent(t, lastTs) == t - lastTs > ReconnectMs

(* The watchdog callback, 60 s after the previous one: the first PS device *)
(* found silent starts _reconnect, which ends the client, drops it, marks  *)
(* the bridge disconnected and then waits 2 s.                              *)
WatchdogTick ==
    LET t == now + WatchdogTickMs
        silent == \E d \in PSDevices : Silent(t, bridge.lastMsgTs[d])
    IN /\ bridge.reconnectWatchdog
       /\ obs.ticks < MaxTicks
       /\ now' = t
       /\ bridge' = IF silent
                    THEN [bridge EXCEPT !.client = FALSE,
                                        !.clients = IF bridge.client THEN @ - 1 ELSE @,
                                        !.reconnecting = @ + 1]
                    ELSE bridge
       /\ isConnected' = IF silent THEN FALSE ELSE isConnected
       /\ obs' = [obs EXCEPT !.ticks = @ + 1,
                             !.reconnects = IF silent THEN @ + 1 ELSE @,
                             !.lastOp = "watchdog"]
       /\ UNCHANGED <<adapter, store, excess, cfg, invState, cutoff, batBedarf, regulationEnabled,
                      run, host>>
       /\ UnchangedRealPower

(* _reconnect after its wait: _authenticate and _connect; ok: both         *)
(* succeeded and _connect stored the new client.                           *)
ReconnectResume(ok) ==
    /\ bridge.reconnecting > 0
    /\ bridge' = [bridge EXCEPT !.reconnecting = @ - 1,
                                !.client = IF ok THEN TRUE ELSE @,
                                !.clients = IF ok THEN @ + 1 ELSE @]
    /\ obs' = [obs EXCEPT !.established = IF ok THEN now ELSE @,
                          !.lastOp = "reconnected"]
    /\ UNCHANGED <<adapter, store, excess, cfg, invState, cutoff, batBedarf, regulationEnabled,
                   isConnected, now, run, host>>
    /\ UnchangedRealPower

(* _onUnload up to the first suspension of stop(): both intervals are      *)
(* cleared; with a client, stop() waits for client.end, without one it     *)
(* completes at once.                                                       *)
Unload ==
    /\ ~bridge.stopping /\ ~obs.stopped
    /\ adapter' = [adapter EXCEPT !.regulationInterval = FALSE]
    /\ bridge' = [bridge EXCEPT !.reconnectWatchdog = FALSE,
                                !.stopping = bridge.client]
    /\ isConnected' = IF bridge.client THEN isConnected ELSE FALSE
    /\ obs' = [obs EXCEPT !.stopped = ~bridge.client, !.lastOp = "unload"]
    /\ UNCHANGED <<store, excess, cfg, invState, cutoff, batBedarf, regulationEnabled,
                   now, run, host>>
    /\ UnchangedRealPower

(* stop() after client.end has called back. *)
UnloadFinish ==
    /\ bridge.stopping
    /\ bridge' = [bridge EXCEPT !.stopping = FALSE, !.client = FALSE, !.clients = @ - 1]
    /\ isConnected' = FALSE
    /\ obs' = [obs EXCEPT !.stopped = TRUE, !.lastOp = "stopped"]
    /\ UNCHANGED <<adapter, store, excess, cfg, invState, cutoff, batBedarf, regulationEnabled,
                   now, run, host>>
    /\ UnchangedRealPower

----------------------------------------------------------------------------
(* StateManager: getValAkt and setStateCon *)

(* The staleness test with the threshold itself counted as stale. *)
TooOldInclusive(ts, t, maxAgeMin) == maxAgeMin > 0 /\ ts <= t - maxAgeMin * MsPerMinute

(* getValAkt: the state is older than maxAgeMin minutes. *)
TooOld(ts, t, maxAgeMin) == maxAgeMin > 0 /\ ts < t - maxAgeMin * MsPerMinute

(* What getValAkt returns for the state st at time t. *)
ValAkt(st, t, maxAgeMin) ==
    [ val |-> IF ~st.present \/ TooOld(st.ts, t, maxAgeMin) THEN Num(0) ELSE st.val,
      ts  |-> IF ~st.present THEN 0 ELSE st.ts ]

(* getValAkt(id, maxAgeMin) at the current time. *)
GetValAkt(maxAgeMin) ==
    LET r == ValAkt(store.state, now, maxAgeMin)
    IN /\ store' = [store EXCEPT !.result =
                       [op |-> "get", maxAgeMin |-> maxAgeMin, at |-> now,
                        val |-> r.val, ts |-> r.ts]]
       /\ obs' = [obs EXCEPT !.lastOp = "getValAkt"]
       /\ UNCHANGED <<adapter, bridge, excess, cfg, invState, cutoff, batBedarf, regulationEnabled,
                      isConnected, now, run, host>>
       /\ UnchangedRealPower

(* state.val == val for the values above: both sides compare as numbers. *)
LooseEqual(a, b) == a.n = b.n

(* The forced-rewrite test that is due already at age = reWriteMs. *)
NoRewriteDueStrict(reWriteMs, age) == reWriteMs = 0 \/ age < reWriteMs

(* setStateCon: no forced rewrite is due. *)
NoRewriteDue(reWriteMs, age) == reWriteMs = 0 \/ age <= reWriteMs

(* setStateCon: whether it writes. *)
Writes(st, t, val, changeOnly, reWriteMs, chMinAge) ==
    IF ~st.present THEN TRUE
    ELSE IF changeOnly /\ LooseEqual(st.val, val) /\ NoRewriteDue(reWriteMs, t - st.ts)
    THEN FALSE
    ELSE IF chMinAge > 0 /\ t - st.lc < chMinAge
    THEN FALSE
    ELSE TRUE

(* The host's setState: value and timestamp, and the last-change time when *)
(* the value differs from the stored one.                                  *)
HostSet(st, t, val) ==
    [ present |-> TRUE, val |-> val, ts |-> t,
      lc |-> IF st.present /\ st.val = val THEN st.lc ELSE t ]

(* setStateCon(id, val, ack, changeOnly, reWriteMs, chMinAge). *)
SetStateCon(val, changeOnly, reWriteMs, chMinAge) ==
    LET st == store.state
        w == Writes(st, now, val, changeOnly, reWriteMs, chMinAge)
    IN /\ obs.writes < MaxWrites
       /\ store' = [ state  |-> IF w THEN HostSet(st, now, val) ELSE st,
                     result |-> [op |-> "set", val |-> val, changeOnly |-> changeOnly,
                                 reWriteMs |-> reWriteMs, chMinAge |-> chMinAge,
                                 written |-> w] ]
       /\ obs' = [obs EXCEPT !.writes = @ + 1, !.lastOp = "setStateCon"]
       /\ UNCHANGED <<adapter, bridge, excess, cfg, invState, cutoff, batBedarf, regulationEnabled,
                      isConnected, now, run, host>>
       /\ UnchangedRealPower

----------------------------------------------------------------------------
(* Regulation._runExcessCharge *)

ExcessRewriteMs == 3600000

(* targetPower plus offset, rounded down to the regulation step, not       *)
(* below 0.                                                                 *)
SetExcessPower(ec, ueberschuss) ==
    LET targetPower == Min(ec.maxPower, ueberschuss)
        p == targetPower + ec.offsetPower
    IN Max(0, p - (p % ec.regulateSteps))

(* The SOC gate: FALSE when a SOC source is configured and the SOC is at   *)
(* or above batSocOff (session active) or batSocMax (no session active).   *)
UeberschussBedingung(ec, wasActive, batSoc) ==
    ~( ec.batSocStateId /\ batSoc >= (IF wasActive THEN ec.batSocOff ELSE ec.batSocMax) )

(* setStateCon called without a minimum change age. *)
ConWriteUnspaced(st, val, chMinAge) ==
    LET w == Writes(st, now, val, TRUE, ExcessRewriteMs, 0)
    IN [ st |-> IF w THEN HostSet(st, now, val) ELSE st, written |-> w ]

(* setStateCon on a state of the controller: the state afterwards and the *)
(* return value.                                                            *)
ConWrite(st, val, chMinAge) ==
    LET w == Writes(st, now, val, TRUE, ExcessRewriteMs, chMinAge)
    IN [ st |-> IF w THEN HostSet(st, now, val) ELSE st, written |-> w ]

(* The surplus has lasted longer than the start duration. *)
StartDue(ec, timer) == now - timer > ec.startDurationMin * MsPerMinute

(* One call of _runExcessCharge with the surplus ueberschuss. *)
RunExcessCharge(ueberschuss) ==
    LET x  == excess
        ec == x.ec
        batSoc == IF ec.batSocStateId THEN x.batSoc ELSE 0
        setExcessPower == SetExcessPower(ec, ueberschuss)
        timer == IF x.ueberschussTimer = 0 THEN now ELSE x.ueberschussTimer
        on  == ConWrite(x.switch, ec.switchOnValue, ec.switchMinMin * MsPerMinute)
        off == ConWrite(x.switch, ec.switchOffValue, ec.switchMinMin * MsPerMinute)
        pw  == ConWrite(x.power, Num(setExcessPower), ec.minRegulatePauseMin * MsPerMinute)
    IN /\ excess' =
            IF UeberschussBedingung(ec, x.excessChargeWasActive, batSoc)
            THEN IF ueberschuss > ec.startPower /\ setExcessPower > 0
                 THEN LET due == StartDue(ec, timer)
                      IN [x EXCEPT
                            !.ueberschussTimer = timer,
                            !.dipped = x.ueberschussTimer # 0 /\ @,
                            !.switch = IF due /\ ec.switchStateId THEN on.st ELSE @,
                            !.excessChargeWasActive =
                                IF due THEN (IF ec.switchStateId THEN @ \/ on.written ELSE TRUE)
                                ELSE @,
                            !.power = pw.st,
                            !.cmds = [switchOn |-> due /\ ec.switchStateId /\ on.written,
                                      switchOff |-> FALSE,
                                      power |-> IF pw.written THEN "setStateCon" ELSE "none"]]
                 ELSE IF ueberschuss <= ec.stopPower
                 THEN LET switched == ec.switchStateId /\ off.written
                      IN [x EXCEPT
                            !.ueberschussTimer = 0,
                            !.dipped = FALSE,
                            !.switch = IF switched THEN off.st ELSE @,
                            !.power = IF switched THEN HostSet(@, now, Num(0)) ELSE @,
                            !.cmds = [switchOn |-> FALSE, switchOff |-> switched,
                                      power |-> IF switched THEN "setForeignState" ELSE "none"]]
                 ELSE [x EXCEPT !.dipped = x.ueberschussTimer # 0, !.cmds = NoCommands]
            ELSE LET try == x.excessChargeWasActive /\ ec.switchStateId
                     sw  == IF try THEN off.st ELSE x.switch
                 IN [x EXCEPT
                       !.ueberschussTimer = 0,
                       !.dipped = FALSE,
                       !.switch = sw,
                       !.excessChargeWasActive =
                           IF try /\ sw.present /\ LooseEqual(sw.val, ec.switchOffValue)
                           THEN FALSE ELSE @,
                       !.cmds = [switchOn |-> FALSE, switchOff |-> try /\ off.written,
                                 power |-> "none"]]
       /\ obs' = [obs EXCEPT !.lastOp = "excessCharge"]
       /\ UNCHANGED <<adapter, bridge, store, cfg, invState, cutoff, batBedarf,
                      regulationEnabled, isConnected, now, run, host>>
       /\ UnchangedRealPower

(* The SOC source reports a new value. *)
SocReport(v) ==
    /\ excess.batSoc # v
    /\ excess' = [excess EXCEPT !.batSoc = v, !.cmds = NoCommands]
    /\ obs' = [obs EXCEPT !.lastOp = "socReport"]
    /\ UNCHANGED <<adapter, bridge, store, cfg, invState, cutoff, batBedarf,
                   regulationEnabled, isConnected, now, run, host>>
    /\ UnchangedRealPower

(* Time passes in steps of just over ten minutes.  Ages beyond the longest *)
(* window the controller tests (the forced rewrite after 60 minutes) are   *)
(* not told apart.                                                          *)
AgeUnit == 10 * MsPerMinute + 1
OldestTs == now - 6 * AgeUnit

(* A timestamp after d ms have passed, seen from an unchanged clock. *)
Aged(ts, d) == Max(OldestTs, ts - d)
AgedState(st, d) == IF st.present THEN [st EXCEPT !.ts = Aged(@, d), !.lc = Aged(@, d)] ELSE st

(* Time passes for the controller: the controller only compares the clock *)
(* with timestamps, so d ms passing moves every timestamp d ms into the    *)
(* past of the clock.                                                       *)
ExcessTimePasses(d) ==
    /\ excess' = [excess EXCEPT
                     !.ueberschussTimer = IF @ = 0 THEN 0 ELSE Aged(@, d),
                     !.switch = AgedState(@, d),
                     !.power = AgedState(@, d),
                     !.cmds = NoCommands]
    /\ excess' # [excess EXCEPT !.cmds = NoCommands]
    /\ obs' = [obs EXCEPT !.lastOp = "time"]
    /\ UNCHANGED <<adapter, bridge, store, cfg, invState, cutoff, batBedarf,
                   regulationEnabled, isConnected, now, run, host>>
    /\ UnchangedRealPower

(* _readBatState: the SOC state read with a maximum age of 600 minutes,    *)
(* Number(s.val) || 0.                                                      *)
SocMaxAgeMin == 600
ReadBatState(st, t) == ValAkt(st, t, SocMaxAgeMin).val.n

----------------------------------------------------------------------------
(* Configurations and readings the checks draw from *)

InverterCfg(type, hasBat, maxPower) ==
    [ regulation |-> TRUE, type |-> type, hasBat |-> hasBat, maxPower |-> maxPower,
      hasSetOutput |-> TRUE, hasPrioState |-> TRUE,
      battPozOn |-> 98, battPozOff |-> 95, battOnSwitchPrio |-> FALSE,
      prioOffOnDemand |-> 0, regulationOffPower |-> -1,
      lowBatLimitPozOn |-> 10, lowBatLimitPozOff |-> 20, lowBatLimit |-> 100 ]

RegulationCfg(invs, mode, reverse) ==
    [ inverters |-> invs, multiPsMode |-> mode, serialReverse |-> reverse,
      hasBridge |-> TRUE, hasSmartmeter |-> TRUE, minValueAg |-> 0 ]

(* What one pass of the read helpers returned for an inverter: raw values  *)
(* of the output, PV, dynamicWatts and batInputWatts states, and the SOC.  *)
Reading(out, soc, pv, dyn, bat) ==
    [ out |-> out, soc |-> soc, pv |-> pv, dyn |-> dyn, bat |-> bat ]

(* A gap window with two samples, and the measurement of the cycle. *)
GapProfiles == { [arr |-> <<0, 0>>, gap |-> 0],
                 [arr |-> <<60, 60>>, gap |-> 60],
                 [arr |-> <<0, 0>>, gap |-> 60] }

(* One run() invocation, in slot 1, that has reached the gap loop with     *)
(* the target T.                                                            *)
AtAggregate(T) ==
    [s \in Slots |-> IF s = 1 THEN [IdleFrame EXCEPT !.pc = "aggregate", !.NewValue = T]
                     ELSE IdleFrame]

InitRest ==
    /\ batBedarf = 0
    /\ regulationEnabled = TRUE
    /\ realPowerWorkInProgress = FALSE
    /\ lastRealPower = 0
    /\ hasLastRealPower = FALSE
    /\ isConnected = TRUE
    /\ now = 100000
    /\ urp = [u \in UrpSlots |-> IdleUrp]
    /\ host = InitHost
    /\ obs = InitObs
    /\ adapter = InitAdapter
    /\ bridge = InitBridge
    /\ store = InitStore
    /\ excess = InitExcessState

----------------------------------------------------------------------------
(* The regulation cycle from construction: the interval timer starts       *)
(* run() invocations, each reads what the devices report, and the bridge   *)
(* connects and disconnects.                                                *)

RunMaxPower == 600

(* Raw device readings of one pre-pass: idle battery and, for the first   *)
(* inverter, battery charging at its maximum rate while the inverter       *)
(* feeds in 290 W.                                                          *)
RunReadings(i) ==
    IF i = 1 THEN { Reading(1000, 50, 2000, 0, 0),
                    Reading(2900, 50, 9000, 0, 0 - 5900) }
    ELSE { Reading(1000, 50, 2000, 0, 0) }

(* The smart-meter state as run() finds it. *)
RunSmartmeter ==
    { [present |-> FALSE, stale |-> FALSE, val |-> 0],
      [present |-> TRUE, stale |-> TRUE, val |-> 400],
      [present |-> TRUE, stale |-> FALSE, val |-> 400] }

(* Results of the history query: none, or the recorded grid readings. *)
RunHistory == { <<>>, <<0>>, <<700, 400>> }

Init ==
    /\ cfg \in { RegulationCfg([i \in Inverters |->
                     InverterCfg("ecoflow", i # 1 \/ mode = 0, RunMaxPower)], mode, FALSE) :
                 mode \in {0, 1} }
    /\ invState = [i \in Inverters |-> InitInverterState(cfg.inverters[i])]
    /\ cutoff = 0
    /\ batBedarf = 0
    /\ regulationEnabled = TRUE
    /\ realPowerWorkInProgress = FALSE
    /\ lastRealPower = 0
    /\ hasLastRealPower = FALSE
    /\ isConnected = FALSE
    /\ now = 100000
    /\ run = [s \in Slots |-> IdleFrame]
    /\ urp = [u \in UrpSlots |-> IdleUrp]
    /\ host = InitHost
    /\ obs = InitObs
    /\ adapter = InitAdapter
    /\ bridge = InitBridge
    /\ store = InitStore
    /\ excess = InitExcessState

Next ==
    \/ \E c \in Slots, e \in BOOLEAN, sm \in RunSmartmeter : RunStart(c, e, sm)
    \/ \E c \in Slots : \E r \in RunReadings(run[c].idx) : PreBegin(c, r)
    \/ \E c \in Slots : PreDecide(c)
    \/ \E c \in Slots, values \in RunHistory : Lowest(c, values)
    \/ \E c \in Slots : Aggregate(c)
    \/ \E c \in Slots : DistributeSerialStep(c)
    \/ \E c \in Slots : DistributeBalanceStep(c)
    \/ \E c \in Slots : RunReturn(c)
    \/ BridgeConnect
    \/ BridgeClose

Spec == Init /\ [][Next]_vars

----------------------------------------------------------------------------
(* The regulation cycle with failing host calls: any awaited call of a     *)
(* run() invocation may reject.                                             *)

TimerReadings == { Reading(1000, 50, 2000, 0, 0) }
TimerSmartmeter == { [present |-> TRUE, stale |-> FALSE, val |-> 400] }
TimerHistory == { <<>>, <<700, 400>> }

(* Construction with the balanced distribution configured. *)
InitTimer == Init /\ cfg.multiPsMode = 0

NextTimer ==
    \/ \E c \in Slots, sm \in TimerSmartmeter : RunStart(c, TRUE, sm)
    \/ \E c \in Slots, r \in TimerReadings : PreBegin(c, r)
    \/ \E c \in Slots : PreDecide(c)
    \/ \E c \in Slots, values \in TimerHistory : Lowest(c, values)
    \/ \E c \in Slots : Aggregate(c)
    \/ \E c \in Slots : DistributeBalanceStep(c)
    \/ \E c \in Slots : RunReturn(c)
    \/ \E c \in Slots : RunThrow(c)

SpecTimer == InitTimer /\ [][NextTimer]_vars

----------------------------------------------------------------------------
(* Cycles one after the other (the timer fires only after the previous     *)
(* invocation has returned) with the bridge connected, two battery         *)
(* inverters, and a state of charge of the first inverter that is at or    *)
(* above the full-on threshold (98), between the thresholds, or below the  *)
(* full-off threshold (95) in each cycle.                                   *)

PinCycles == MaxCycles + 1
PinSOC == {100, 96, 90}
PinReadings(i) ==
    IF i = 1 THEN { Reading(1000, soc, 2000, 0, 0) : soc \in PinSOC }
    ELSE { Reading(1000, 50, 2000, 0, 0) }
PinSmartmeter == { [present |-> TRUE, stale |-> FALSE, val |-> 400] }
PinHistory == { <<0>>, <<700, 400>> }

InitPin ==
    /\ cfg \in { RegulationCfg([i \in Inverters |-> InverterCfg("ecoflow", TRUE, RunMaxPower)],
                               mode, FALSE) : mode \in {0, 1} }
    /\ invState = [i \in Inverters |-> InitInverterState(cfg.inverters[i])]
    /\ cutoff = 0
    /\ run = [s \in Slots |-> IdleFrame]
    /\ InitRest

NextPin ==
    \/ \E sm \in PinSmartmeter : Cardinality(Running) = 0 /\ RunStartWithin(PinCycles, 1, TRUE, sm)
    \/ \E r \in PinReadings(run[1].idx) : PreBegin(1, r)
    \/ PreDecide(1)
    \/ \E values \in PinHistory : Lowest(1, values)
    \/ Aggregate(1)
    \/ DistributeSerialStep(1)
    \/ DistributeBalanceStep(1)
    \/ RunReturn(1)

SpecPin == InitPin /\ [][NextPin]_vars

(* Cycles that never overlap, with the bridge's client losing and         *)
(* regaining its connection between and during them.                      *)
NextDeliver ==
    \/ NextPin
    \/ BridgeConnect
    \/ BridgeClose

SpecDeliver == InitPin /\ [][NextDeliver]_vars

----------------------------------------------------------------------------
(* Cycles one after the other, one regulation interval or a minute apart,  *)
(* with priority switching configured for the first inverter (priority     *)
(* mode is given up when the battery demand exceeds 100 W), a full or a    *)
(* discharged battery, and a small or a large grid demand.                 *)

PrioOffOnDemand == 100
PrioSOC == {100, 90}
PrioReadings(i) ==
    IF i = 1 THEN { Reading(1000, soc, 2000, 0, 0) : soc \in PrioSOC }
    ELSE { Reading(1000, 50, 2000, 0, 0) }
PrioHistory == { <<400>>, <<1500>> }
PrioGaps == { RegulationIntervalMs, PrioSettleMs }

InitPrio ==
    /\ cfg = RegulationCfg([i \in Inverters |->
                 [InverterCfg("ecoflow", TRUE, RunMaxPower) EXCEPT
                     !.battOnSwitchPrio = (i = 1),
                     !.prioOffOnDemand = IF i = 1 THEN PrioOffOnDemand ELSE 0]], 0, FALSE)
    /\ invState = [i \in Inverters |-> InitInverterState(cfg.inverters[i])]
    /\ cutoff = 0
    /\ run = [s \in Slots |-> IdleFrame]
    /\ InitRest

NextPrio ==
    \/ \E sm \in PinSmartmeter :
           /\ Cardinality(Running) = 0 /\ obs.lastOp \in {"init", "time"}
           /\ RunStartWithin(PinCycles, 1, TRUE, sm)
    \/ \E r \in PrioReadings(run[1].idx) : PreBegin(1, r)
    \/ PreDecide(1)
    \/ \E values \in PrioHistory : Lowest(1, values)
    \/ Aggregate(1)
    \/ DistributeBalanceStep(1)
    \/ RunReturn(1)
    \/ \E d \in PrioGaps : Cardinality(Running) = 0 /\ obs.lastOp # "init" /\ AdvanceTime(d)

SpecPrio == InitPrio /\ [][NextPrio]_vars

----------------------------------------------------------------------------
(* The history query of a cycle.  _getLowestValue hands a callback to      *)
(* sendTo and returns a promise that only this callback settles: there is  *)
(* no timer beside it, so run() stays at its await until the history       *)
(* adapter answers.  The steps of run() itself are taken whenever they can *)
(* be; the answer (a result, an empty result or an error) is the history   *)
(* adapter's and may never come.                                            *)

HistoryAnswers == PinHistory \cup { <<>> }

HistoryProgram ==
    \/ \E sm \in PinSmartmeter : Cardinality(Running) = 0 /\ RunStartWithin(PinCycles, 1, TRUE, sm)
    \/ \E r \in PinReadings(run[1].idx) : PreBegin(1, r)
    \/ PreDecide(1)
    \/ Aggregate(1)
    \/ DistributeSerialStep(1)
    \/ DistributeBalanceStep(1)
    \/ RunReturn(1)

HistoryAnswer == \E values \in HistoryAnswers : Lowest(1, values)

NextHistory == HistoryProgram \/ HistoryAnswer

SpecHistory == InitPin /\ [][NextHistory]_vars /\ WF_vars(HistoryProgram)

----------------------------------------------------------------------------
(* Two cycles one after the other, one regulation interval or a little     *)
(* more than the rewrite period apart, in serial and in balanced mode,     *)
(* with the bridge connected: the first battery is full or discharging,    *)
(* and the grid demand is small or larger than what the inverters can      *)
(* deliver.                                                                 *)

SuppressSOC == {100, 90}
SuppressReadings(i) ==
    IF i = 1 THEN { Reading(1000, soc, 2000, 0, 0) : soc \in SuppressSOC }
    ELSE { Reading(1000, 50, 2000, 0, 0) }
SuppressHistory == { <<400>>, <<1500>> }
SuppressGaps == { RegulationIntervalMs, RewriteMs + 1 }

InitSuppress == InitPin

NextSuppress ==
    \/ \E sm \in PinSmartmeter :
           /\ Cardinality(Running) = 0 /\ obs.lastOp \in {"init", "time"}
           /\ RunStart(1, TRUE, sm)
    \/ \E r \in SuppressReadings(run[1].idx) : PreBegin(1, r)
    \/ PreDecide(1)
    \/ \E values \in SuppressHistory : Lowest(1, values)
    \/ Aggregate(1)
    \/ DistributeSerialStep(1)
    \/ DistributeBalanceStep(1)
    \/ RunReturn(1)
    \/ \E d \in SuppressGaps : Cardinality(Running) = 0 /\ obs.lastOp # "init" /\ AdvanceTime(d)

SpecSuppress == InitSuppress /\ [][NextSuppress]_vars

----------------------------------------------------------------------------
(* Cycles one after the other while the user switches regulation off and   *)
(* on.  The first inverter has a regulation-off power of 100 W; the second *)
(* is excluded from regulation, or takes part and is put into priority     *)
(* mode while regulation is off.                                            *)

EnableOffPower == 100

InitEnable ==
    /\ cfg \in { RegulationCfg([i \in Inverters |->
                     [InverterCfg("ecoflow", TRUE, RunMaxPower) EXCEPT
                         !.regulation = (i # 2 \/ second),
                         !.regulationOffPower =
                             IF i = 1 THEN EnableOffPower ELSE IF i = 2 THEN -2 ELSE -1]],
                     mode, FALSE) : mode \in {0, 1}, second \in BOOLEAN }
    /\ invState = [i \in Inverters |-> InitInverterState(cfg.inverters[i])]
    /\ cutoff = 0
    /\ run = [s \in Slots |-> IdleFrame]
    /\ InitRest

NextEnable ==
    \/ \E sm \in PinSmartmeter : Cardinality(Running) = 0 /\ RunStart(1, host.enabled, sm)
    \/ \E r \in PinReadings(run[1].idx) : PreBegin(1, r)
    \/ PreDecide(1)
    \/ \E values \in PinHistory : Lowest(1, values)
    \/ Aggregate(1)
    \/ DistributeSerialStep(1)
    \/ DistributeBalanceStep(1)
    \/ RunReturn(1)
    \/ \E enabled \in BOOLEAN : OnEnabledChange(enabled)

SpecEnable == InitEnable /\ [][NextEnable]_vars

----------------------------------------------------------------------------
(* Cycles one after the other whose SOC reading of the first inverter      *)
(* comes from a host state that is missing or was last written by the      *)
(* device at start-up, with one regulation interval or more than the       *)
(* maximum age of the SOC state passing between the cycles.                *)

StaleSOC == {50, 100}
StaleGaps == { RegulationIntervalMs, SocMaxAgeMin * MsPerMinute + 1 }

(* The SOC state is missing or older than its maximum age. *)
NoData(st, t) == ~st.present \/ TooOld(st.ts, t, SocMaxAgeMin)

InitStale ==
    /\ cfg = RegulationCfg([i \in Inverters |-> InverterCfg("ecoflow", TRUE, RunMaxPower)],
                           0, FALSE)
    /\ invState = [i \in Inverters |-> InitInverterState(cfg.inverters[i])]
    /\ cutoff = 0
    /\ run = [s \in Slots |-> IdleFrame]
    /\ batBedarf = 0
    /\ regulationEnabled = TRUE
    /\ realPowerWorkInProgress = FALSE
    /\ lastRealPower = 0
    /\ hasLastRealPower = FALSE
    /\ isConnected = TRUE
    /\ now = 100000
    /\ urp = [u \in UrpSlots |-> IdleUrp]
    /\ host = InitHost
    /\ obs = InitObs
    /\ adapter = InitAdapter
    /\ bridge = InitBridge
    /\ excess = InitExcessState
    /\ store \in { [InitStore EXCEPT !.state = st] :
                    st \in { InitStore.state } \cup
                           { [present |-> TRUE, val |-> Num(v), ts |-> now, lc |-> now] :
                             v \in StaleSOC } }

NextStale ==
    \/ \E sm \in PinSmartmeter :
           /\ Cardinality(Running) = 0 /\ obs.lastOp \in {"init", "time"}
           /\ RunStartWithin(PinCycles, 1, TRUE, sm)
    \/ \E soc \in IF run[1].idx = 1 THEN {ReadBatState(store.state, now)} ELSE {50} :
           PreBegin(1, Reading(1000, soc, 2000, 0, 0))
    \/ PreDecide(1)
    \/ \E values \in PinHistory : Lowest(1, values)
    \/ Aggregate(1)
    \/ DistributeBalanceStep(1)
    \/ RunReturn(1)
    \/ \E d \in StaleGaps : Cardinality(Running) = 0 /\ obs.lastOp # "init" /\ AdvanceTime(d)

SpecStale == InitStale /\ [][NextStale]_vars

----------------------------------------------------------------------------
(* The excess-charge controller called cycle after cycle, with and without *)
(* a switch state and a SOC source, a surplus below the stop power,        *)
(* between the two thresholds or above the start power, a SOC below        *)
(* batSocMax, between batSocMax and batSocOff or above batSocOff, and a    *)
(* start duration and a power spacing of 10 minutes, a switch spacing of   *)
(* 30 minutes, and nothing, ten minutes, half an hour or an hour passing   *)
(* between cycles.                                                          *)

ExcessNow == 4000000
ExcessSurplus == {0, 100, 500}
ExcessSoc == {50, 92, 97}
ExcessGaps == { AgeUnit, 3 * AgeUnit, 6 * AgeUnit }

InitExcess ==
    /\ cfg = RegulationCfg([i \in Inverters |-> InverterCfg("ecoflow", TRUE, RunMaxPower)],
                           0, FALSE)
    /\ invState = [i \in Inverters |-> InitInverterState(cfg.inverters[i])]
    /\ cutoff = 0
    /\ run = [s \in Slots |-> IdleFrame]
    /\ batBedarf = 0
    /\ regulationEnabled = TRUE
    /\ realPowerWorkInProgress = FALSE
    /\ lastRealPower = 0
    /\ hasLastRealPower = FALSE
    /\ isConnected = TRUE
    /\ now = ExcessNow
    /\ urp = [u \in UrpSlots |-> IdleUrp]
    /\ host = InitHost
    /\ obs = InitObs
    /\ adapter = InitAdapter
    /\ bridge = InitBridge
    /\ store = InitStore
    /\ excess \in { ExcessState(ExcessCfg(sw, soc)) : sw \in BOOLEAN, soc \in BOOLEAN }

ExcessCycle == \E u \in ExcessSurplus : RunExcessCharge(u)
ExcessClock == \E d \in ExcessGaps : ExcessTimePasses(d)

NextExcess ==
    \/ ExcessCycle
    \/ \E v \in ExcessSoc : SocReport(v)
    \/ ExcessClock

SpecExcess == InitExcess /\ [][NextExcess]_vars

(* The same with cycles that keep running and time that keeps passing. *)
SpecExcessFair == SpecExcess /\ WF_vars(ExcessCycle) /\ WF_vars(ExcessClock)

----------------------------------------------------------------------------
(* The pre-pass on its own: one invocation at the start of its pre-pass,   *)
(* with every combination below of the Zusatzpower values earlier cycles   *)
(* left behind, the battery demand and the device readings.                *)

(* Values the ramp reaches: 0, and steps of 20 from an output of 0, 100,   *)
(* 260, 290 or 600 W.                                                       *)
PrePassZusatz == {0, 20, 100, 120, 280, 300, 310, 620}
PrePassBedarf == {0, 200}
PrePassReadings ==
    { Reading(1000, 50, 2000, 0, 0),
      Reading(2900, 50, 9000, 0, 0 - 5900),
      Reading(1000, 50, 9000, 0, 0 - 5950),
      Reading(0, 50, 9000, 0, 0 - 5900),
      Reading(1000, 50, 7000, 0, 0 - 5000),
      Reading(1000, 100, 2000, 0, 0),
      Reading(1000, 5, 7000, 0, 0 - 5000) }

InitPrePass ==
    /\ cfg = RegulationCfg([i \in Inverters |-> InverterCfg("ecoflow", TRUE, RunMaxPower)],
                           0, FALSE)
    /\ invState \in
         { [i \in Inverters |->
               [InitInverterState(cfg.inverters[i]) EXCEPT
                   !.zusatzpower = z[i],
                   !.OldNewValue = z[i],
                   !.regulieren = (z[i] = 0)]] :
           z \in [Inverters -> PrePassZusatz] }
    /\ cutoff = 0
    /\ batBedarf \in PrePassBedarf
    /\ regulationEnabled = TRUE
    /\ realPowerWorkInProgress = FALSE
    /\ lastRealPower = 0
    /\ hasLastRealPower = FALSE
    /\ isConnected = TRUE
    /\ now = 100000
    /\ run = [s \in Slots |-> IF s = 1 THEN [IdleFrame EXCEPT !.pc = "pre", !.idx = 1]
                              ELSE IdleFrame]
    /\ urp = [u \in UrpSlots |-> IdleUrp]
    /\ host = InitHost
    /\ obs = InitObs
    /\ adapter = InitAdapter
    /\ bridge = InitBridge
    /\ store = InitStore
    /\ excess = InitExcessState

NextPrePass ==
    \/ \E c \in Slots, r \in PrePassReadings : PreBegin(c, r)
    \/ \E c \in Slots : PreDecide(c)

SpecPrePass == InitPrePass /\ [][NextPrePass]_vars

(* The pre-pass with an inverter that already feeds in its maxPower while  *)
(* its battery charges at the maximum rate.                                *)
LimitReadings == PrePassReadings \cup {Reading(RunMaxPower * 10, 50, 12000, 0, 0 - 5900)}

NextLimit ==
    \/ \E c \in Slots, r \in LimitReadings : PreBegin(c, r)
    \/ \E c \in Slots : PreDecide(c)

SpecLimit == InitPrePass /\ [][NextLimit]_vars

----------------------------------------------------------------------------
(* Serial distribution on its own: every combination of max powers,        *)
(* low-battery caps, gap windows and targets below.                        *)

SerialMaxPowers == {300, 600}
SerialTargets == {0 - 50, 0, 100, 299, 600, 900, 1300}

InitSerial ==
    /\ cfg \in { RegulationCfg([i \in Inverters |-> InverterCfg("ecoflow", TRUE, mp[i])], 1, r) :
                 mp \in [Inverters -> SerialMaxPowers], r \in BOOLEAN }
    /\ invState \in
         { [i \in Inverters |->
               [InitInverterState(cfg.inverters[i]) EXCEPT
                   !.GapArray = gp[i].arr,
                   !.LeiststungsGap = gp[i].gap,
                   !.GAPdurchschnitt = gp[i].arr[1],
                   !.OldNewValue = 0,
                   !.TempMaxPower = IF low[i] THEN cfg.inverters[i].lowBatLimit ELSE @]] :
           gp \in [Inverters -> GapProfiles], low \in [Inverters -> BOOLEAN] }
    /\ cutoff = 0
    /\ run \in { AtAggregate(T) : T \in SerialTargets }
    /\ InitRest

NextSerial == \E c \in Slots : Aggregate(c) \/ DistributeSerialStep(c)

SpecSerial == InitSerial /\ [][NextSerial]_vars

----------------------------------------------------------------------------
(* Balanced distribution on its own: every combination of PV and SOC       *)
(* readings, gap windows, gap-wait timers, max powers, targets and         *)
(* carried cutoff below.                                                    *)

BalanceMaxPowers == {300, 800}
BalanceTargets == {0 - 50, 100, 200, 1000}
BalancePV == {100, 600}
BalanceSOC == {0, 50}
BalanceCutoffs == {0, 500}
BalanceGapWaits == {0, 70000}

InitBalance ==
    /\ cfg \in { RegulationCfg([i \in Inverters |-> InverterCfg("ecoflow", TRUE, mp[i])], 0, FALSE) :
                 mp \in [Inverters -> BalanceMaxPowers] }
    /\ invState \in
         { [i \in Inverters |->
               [InitInverterState(cfg.inverters[i]) EXCEPT
                   !.GapArray = gp[i].arr,
                   !.LeiststungsGap = gp[i].gap,
                   !.GAPdurchschnitt = gp[i].arr[1],
                   !.OldNewValue = 0,
                   !.gapWait = gw[i],
                   !.sumPV = pv[i],
                   !.batstate = soc[i]]] :
           gp \in [Inverters -> GapProfiles], gw \in [Inverters -> BalanceGapWaits],
           pv \in [Inverters -> BalancePV], soc \in [Inverters -> BalanceSOC] }
    /\ cutoff \in BalanceCutoffs
    /\ run \in { AtAggregate(T) : T \in BalanceTargets }
    /\ InitRest

NextBalance == \E c \in Slots : Aggregate(c) \/ DistributeBalanceStep(c)

SpecBalance == InitBalance /\ [][NextBalance]_vars

(* The balanced cycle with PV readings 300 W and 100 W, SOC 50 and 50 and  *)
(* target 200 W, for every gap window, gap-wait timer, max power and       *)
(* carried cutoff above.                                                    *)
ScenarioRegulated == {1, 2}
ScenarioPV == <<300, 100>>
ScenarioSOC == <<50, 50>>
ScenarioTarget == 200

InitScenario ==
    /\ cfg \in { RegulationCfg([i \in Inverters |->
                     [InverterCfg("ecoflow", TRUE, mp[i]) EXCEPT
                         !.regulation = i \in ScenarioRegulated]], 0, FALSE) :
                 mp \in [Inverters -> BalanceMaxPowers] }
    /\ invState \in
         { [i \in Inverters |->
               [InitInverterState(cfg.inverters[i]) EXCEPT
                   !.GapArray = gp[i].arr,
                   !.LeiststungsGap = gp[i].gap,
                   !.GAPdurchschnitt = gp[i].arr[1],
                   !.OldNewValue = 0,
                   !.gapWait = gw[i],
                   !.sumPV = IF i \in ScenarioRegulated THEN ScenarioPV[i] ELSE 0,
                   !.batstate = IF i \in ScenarioRegulated THEN ScenarioSOC[i] ELSE 0]] :
           gp \in [Inverters -> GapProfiles], gw \in [Inverters -> BalanceGapWaits] }
    /\ cutoff \in BalanceCutoffs
    /\ run = AtAggregate(ScenarioTarget)
    /\ InitRest

SpecScenario == InitScenario /\ [][NextBalance]_vars

----------------------------------------------------------------------------
(* Claims about the distribution strategies *)

Distributed == run[1].pc = "end"
Target == run[1].NewValue
FirstInv == Ordered(1)
CapSum == SumOver([i \in Inverters |-> invState[i].TempMaxPower], Inverters)
SetSum == SumOver([i \in Inverters |-> invState[i].OldNewValue], Regulated)

\* C2: serial distribution with 0 <= T < m_1: the first inverter in
\* processing order receives exactly T and every later inverter receives 0,
\* whatever the gap averages and the gap total are.
C2_SerialSmallTarget ==
    (Distributed /\ 0 <= Target /\ Target < invState[FirstInv].TempMaxPower)
    => /\ invState[FirstInv].OldNewValue = Target
       /\ \A k \in 2..NInv : invState[Ordered(k)].OldNewValue = 0

\* C3 as stated: serial distribution with T >= sum of the max powers: every
\* inverter receives exactly its max power and the remainder carried after
\* the last inverter is 0.
C3_SerialFullTargetOriginal ==
    (Distributed /\ Target >= CapSum)
    => /\ \A i \in Inverters : invState[i].OldNewValue = invState[i].TempMaxPower
       /\ run[1].calcValue = 0

\* C3 as amended: serial distribution with T >= sum of the (temporary) max
\* powers: every inverter receives exactly its max power and the remainder
\* carried after the last inverter is T minus that sum (0 only when T
\* equals the sum).
C3_SerialFullTarget ==
    (Distributed /\ Target >= CapSum)
    => /\ \A i \in Inverters : invState[i].OldNewValue = invState[i].TempMaxPower
       /\ run[1].calcValue = Target - CapSum

C3_Witness ==
    /\ Distributed
    /\ Target > CapSum
    /\ \A i \in Inverters : invState[i].OldNewValue = invState[i].TempMaxPower
    /\ run[1].calcValue > 0

\* C4: balanced distribution: at the end of a pass the set-points of the
\* regulated inverters sum to at most the cycle target, up to one watt of
\* floor rounding per inverter.
C4_BalanceSumWithinTarget ==
    Distributed => SetSum <= Target + NInv

\* C5: balanced distribution: an inverter whose share exceeds its max power
\* is set to exactly that max power, and the overflow an inverter leaves is
\* exactly the spill added to the share of the next inverter of the pass,
\* also when that next inverter overflows itself.
C5_BalanceSpillHandedOn ==
    \A k \in 1..(NInv - 1) :
        (run[1].pc = "end" \/ (run[1].pc = "balance" /\ run[1].idx > k + 1))
        => /\ obs.overflow[k] > 0 => invState[k].OldNewValue = invState[k].TempMaxPower
           /\ obs.spillIn[k + 1] = obs.overflow[k]

----------------------------------------------------------------------------
(* updateRealPower and the state-change callback that calls it *)

(* The single-flight guard without its test. *)
UrpBusyNever(flag) == FALSE

(* The single-flight guard: the invocation returns at once when set. *)
UrpBusy(flag) == flag

(* PeakSkip that compares against nothing. *)
PeakSkipNever(has, last, realPower) == FALSE

(* PeakSkip: the update is a drop of more than 100 W from the last value. *)
PeakSkip(has, last, realPower) == has /\ realPower + PeakSkipWatts < last

(* The finally block without its assignment. *)
UrpFinallyKeep(flag) == flag

(* finally { this.realPowerWorkInProgress = false; } *)
UrpFinally(flag) == FALSE

(* updateRealPower(gridPower) up to its 5 s wait; finite: gridPower is a   *)
(* finite number.                                                           *)
UrpInvokeWith(u, gridPower, finite) ==
    /\ urp[u].pc = "idle"
    /\ \A v \in UrpSlots : v < u => urp[v].pc # "idle"
    /\ IF UrpBusy(realPowerWorkInProgress)
       THEN /\ obs' = [obs EXCEPT !.dropped = Inc(@), !.lastOp = "urpDropped"]
            /\ UNCHANGED <<urp, realPowerWorkInProgress>>
       ELSE /\ realPowerWorkInProgress' = TRUE
            /\ urp' = [urp EXCEPT ![u] = [pc |-> "settle", gridPower |-> gridPower,
                                          finite |-> finite, realPower |-> 0]]
            /\ obs' = [obs EXCEPT !.lastOp = "urpStart"]
    /\ UNCHANGED <<adapter, bridge, store, excess, cfg, invState, cutoff, batBedarf, regulationEnabled,
                   lastRealPower, hasLastRealPower, isConnected, now, run, host>>

(* _onStateChange, smart-meter branch: gridPower is the changed value. *)
UrpInvoke(u, gridPower) == UrpInvokeWith(u, gridPower, TRUE)

(* updateRealPower called without a grid power. *)
UrpInvokeBare(u) == UrpInvokeWith(u, 0, FALSE)

(* After the wait, without a finite gridPower: the smart-meter id is       *)
(* empty or its state is missing (the invocation returns through the       *)
(* finally block), or the state's value becomes the grid power.            *)
UrpReadMeter(u, meter) ==
    /\ urp[u].pc = "settle" /\ ~urp[u].finite
    /\ IF meter.hasId /\ meter.present
       THEN /\ urp' = [urp EXCEPT ![u].gridPower = meter.val, ![u].finite = TRUE]
            /\ obs' = [obs EXCEPT !.lastOp = "urpMeter"]
            /\ UNCHANGED realPowerWorkInProgress
       ELSE /\ urp' = [urp EXCEPT ![u] = IdleUrp]
            /\ obs' = [obs EXCEPT !.lastOp = "urpAbort"]
            /\ realPowerWorkInProgress' = UrpFinally(realPowerWorkInProgress)
    /\ UNCHANGED <<adapter, bridge, store, excess, cfg, invState, cutoff, batBedarf, regulationEnabled,
                   lastRealPower, hasLastRealPower, isConnected, now, run, host>>

(* A state read or the write of regulation.realPower rejects: the finally  *)
(* block runs and the exception leaves updateRealPower.                    *)
UrpThrow(u) ==
    /\ urp[u].pc \in {"settle", "publish"}
    /\ urp' = [urp EXCEPT ![u] = IdleUrp]
    /\ obs' = [obs EXCEPT !.lastOp = "urpThrow"]
    /\ realPowerWorkInProgress' = UrpFinally(realPowerWorkInProgress)
    /\ UNCHANGED <<adapter, bridge, store, excess, cfg, invState, cutoff, batBedarf, regulationEnabled,
                   lastRealPower, hasLastRealPower, isConnected, now, run, host>>

(* After the wait: the inverter outputs, the additional feed-in sum and    *)
(* the excess-charge draw are read; einspeisung and excessActual are what  *)
(* the reads returned.                                                      *)
UrpCompute(u, einspeisung, excessActual) ==
    /\ urp[u].pc = "settle" /\ urp[u].finite
    /\ urp' = [urp EXCEPT ![u].pc = "publish",
                          ![u].realPower = (urp[u].gridPower + einspeisung) - excessActual]
    /\ obs' = [obs EXCEPT !.lastOp = "urpCompute"]
    /\ UNCHANGED <<adapter, bridge, store, excess, cfg, invState, cutoff, batBedarf, regulationEnabled,
                   realPowerWorkInProgress, lastRealPower, hasLastRealPower,
                   isConnected, now, run, host>>

(* PeakSkip, the write of regulation.realPower, and the finally block. *)
UrpPublish(u) ==
    LET rp == urp[u].realPower
        skip == PeakSkip(hasLastRealPower, lastRealPower, rp)
    IN /\ urp[u].pc = "publish"
       /\ host' = IF skip THEN host
                  ELSE [host EXCEPT !.realPower = rp, !.hasRealPower = TRUE]
       /\ obs' = IF skip
                 THEN [obs EXCEPT !.skipped = Inc(@), !.lastOp = "urpSkip"]
                 ELSE [obs EXCEPT !.published = LastTwo(@, rp),
                                  !.pubAfter = [has |-> hasLastRealPower,
                                                last |-> lastRealPower],
                                  !.lastOp = "urpPublish"]
       /\ lastRealPower' = rp
       /\ hasLastRealPower' = TRUE
       /\ realPowerWorkInProgress' = UrpFinally(realPowerWorkInProgress)
       /\ urp' = [urp EXCEPT ![u] = IdleUrp]
       /\ UNCHANGED <<adapter, bridge, store, excess, cfg, invState, cutoff, batBedarf, regulationEnabled,
                      isConnected, now, run>>

----------------------------------------------------------------------------
(* The real-power estimate on its own: smart-meter changes arrive at any   *)
(* time, also while a computation waits or reads.                           *)

GridReadings == {0, 200, 500}
FeedInReadings == {0, 150}
ExcessReadings == {0, 100}

InitRealPower ==
    /\ cfg = RegulationCfg([i \in Inverters |-> InverterCfg("ecoflow", TRUE, 800)], 0, FALSE)
    /\ invState = [i \in Inverters |-> InitInverterState(cfg.inverters[i])]
    /\ cutoff = 0
    /\ run = [s \in Slots |-> IdleFrame]
    /\ InitRest

NextRealPower ==
    \E u \in UrpSlots :
        \/ \E g \in GridReadings : UrpInvoke(u, g)
        \/ \E e \in FeedInReadings, x \in ExcessReadings : UrpCompute(u, e, x)
        \/ UrpPublish(u)

SpecRealPower == InitRealPower /\ [][NextRealPower]_vars

(* The same with invocations that get no grid power and read the meter     *)
(* themselves, with a missing meter id or meter state, and with host       *)
(* calls that reject.  An invocation that waits is resumed: its timer      *)
(* fires and every host call it awaits is settled.                         *)
FlagGrid == {0, 500}
FlagMeters ==
    { [hasId |-> FALSE, present |-> FALSE, val |-> 0],
      [hasId |-> TRUE, present |-> FALSE, val |-> 0],
      [hasId |-> TRUE, present |-> TRUE, val |-> 200] }

UrpCall == \E u \in UrpSlots : (\E g \in FlagGrid : UrpInvoke(u, g)) \/ UrpInvokeBare(u)

UrpResume ==
    \E u \in UrpSlots :
        \/ \E meter \in FlagMeters : UrpReadMeter(u, meter)
        \/ UrpCompute(u, 0, 0)
        \/ UrpPublish(u)
        \/ UrpThrow(u)

NextFlag == UrpCall \/ UrpResume

SpecFlag == InitRealPower /\ [][NextFlag]_vars /\ WF_vars(UrpResume)

----------------------------------------------------------------------------
(* Inbound frames on one topic: JSON and binary frames with two bodies and *)
(* two embedded timestamps arrive 0, 1000 or 2000 ms apart.                *)

InboundFrames ==
    { Frame(k, 1, Body("soc", b), ts) : k \in {"json", "binary"}, b \in {"a", "b"}, ts \in {1, 2} }
InboundGaps == {1000, 2000}

(* The engine idle and the bridge connected. *)
InitInbound == InitRealPower

NextInbound ==
    \/ \E f \in InboundFrames : HandleMessage(f)
    \/ \E d \in InboundGaps : AdvanceTime(d)

SpecInbound == InitInbound /\ [][NextInbound]_vars

(* JSON messages on one topic, with either first field name, two values    *)
(* after it and two embedded timestamps, arriving up to three in a row,    *)
(* 1000 ms, 1 ms short of the minimum age, or the minimum age apart.       *)
DedupMsgs == MaxMsgs + 1
DedupFrames ==
    { Frame("json", 1, Body(f, b), ts) : f \in FieldNames, b \in {"a", "b"}, ts \in {1, 2} }
DedupGaps == {1000, DedupMinAge - 1, DedupMinAge}

InitDedup == InitRealPower

NextDedup ==
    \/ \E f \in DedupFrames : HandleMessageWithin(DedupMsgs, f)
    \/ \E d \in DedupGaps : AdvanceTime(d)

SpecDedup == InitDedup /\ [][NextDedup]_vars

(* Binary frames: a power station and a smart meter are configured; the    *)
(* frames arrive on the topics subscribed for them and carry one or two    *)
(* headers, each with the serial of a configured device, of an unknown     *)
(* device, or none.                                                         *)
ConfiguredDevices ==
    << [serial |-> "HW51", typ |-> "PS"], [serial |-> "BK11", typ |-> "SM"] >>
DecodeSerials == {"HW51", "BK11"}
DecodeUserID == "4711"
DecodeTopics ==
    UNION { {SetTopic(DecodeUserID, sn), GetTopic(DecodeUserID, sn), PropertyTopic(sn)} :
            sn \in DecodeSerials }
DecodeHeaders ==
    { [deviceSn |-> sn, cmdId |-> 1, cmdFunc |-> 20] : sn \in DecodeSerials \cup {"", "R331"} }
DecodeFrames == { <<h>> : h \in DecodeHeaders } \cup (DecodeHeaders \X DecodeHeaders)

InitDecode == InitRealPower

NextDecode ==
    \E topic \in DecodeTopics, headers \in DecodeFrames :
        DecodeAndPrint(topic, headers, ConfiguredDevices)

SpecDecode == InitDecode /\ [][NextDecode]_vars

(* Binary frames on the topics of the PowerStream: malformed ones, and    *)
(* one or two headers with known, ignored and unknown commands.           *)
CodecTopics == {SetTopic(DecodeUserID, "HW51"), PropertyTopic("HW51")}
CodecCommands == {<<1, 20>>, <<32, 254>>, <<134, 20>>, <<135, 20>>, <<99, 20>>}
CodecHeaders ==
    { [deviceSn |-> "HW51", cmdId |-> c[1], cmdFunc |-> c[2], pdataOk |-> ok] :
          c \in CodecCommands, ok \in BOOLEAN }
CodecFrames ==
    {[malformed |-> TRUE, headers |-> <<>>]}
        \cup { [malformed |-> FALSE, headers |-> <<h>>] : h \in CodecHeaders }
        \cup { [malformed |-> FALSE, headers |-> hs] : hs \in CodecHeaders \X CodecHeaders }

InitCodec == InitRealPower

NextCodec ==
    \/ \E topic \in CodecTopics, frame \in CodecFrames :
           HandleBinaryMessage(topic, frame, ConfiguredDevices)
    \/ LastTopicUnlock
    \/ BridgeConnect
    \/ BridgeClose

SpecCodec == InitCodec /\ [][NextCodec]_vars

----------------------------------------------------------------------------
(* The bridge session: host-side writes, messages of both devices, the     *)
(* watchdog, reconnects, connect and close events, and the unload.         *)

SessionFrames == { Frame("json", d, Body("soc", "a"), 1) : d \in PSDevices }
WriteKinds == {"setAC", "writeable"}

NextSession ==
    \/ \E ack \in BOOLEAN, k \in WriteKinds : HostWrite(ack, k)
    \/ OnStateChange
    \/ \E f \in SessionFrames : HandleMessage(f)
    \/ WatchdogTick
    \/ \E ok \in BOOLEAN : ReconnectResume(ok)
    \/ BridgeConnect
    \/ BridgeClose
    \/ Unload
    \/ UnloadFinish

SpecSession == InitInbound /\ [][NextSession]_vars

(* The outgoing path of the session on its own: host-side writes and their *)
(* handling while the bridge connects, closes and is unloaded.             *)
NextOutgoing ==
    \/ \E ack \in BOOLEAN, k \in WriteKinds : HostWrite(ack, k)
    \/ OnStateChange
    \/ BridgeConnect
    \/ BridgeClose
    \/ Unload
    \/ UnloadFinish

SpecOutgoing == InitInbound /\ [][NextOutgoing]_vars

(* The watchdog of the session on its own: messages of both devices, the   *)
(* 60 s tick, reconnects, and connect and close events.                    *)
NextWatchdog ==
    \/ \E f \in SessionFrames : HandleMessage(f)
    \/ WatchdogTick
    \/ \E ok \in BOOLEAN : ReconnectResume(ok)
    \/ BridgeConnect
    \/ BridgeClose

SpecWatchdog == InitInbound /\ [][NextWatchdog]_vars

----------------------------------------------------------------------------
(* The StateManager helpers on one state: writes of numbers, strings and   *)
(* booleans, reads with and without a maximum age, and the clock moving    *)
(* to just before, onto and just past the one-minute thresholds.           *)

StoreValues == { Num(0), Num(7), Str(7), Bool(TRUE) }
StoreGaps == {1, 59999}
StoreMaxAges == {0, 1}
StoreRewrites == {0, 60000}
StoreChangeAges == {0, 60000}

NextStore ==
    \/ \E m \in StoreMaxAges : GetValAkt(m)
    \/ \E v \in StoreValues, c \in BOOLEAN, r \in StoreRewrites, a \in StoreChangeAges :
           SetStateCon(v, c, r, a)
    \/ \E d \in StoreGaps : AdvanceTime(d)

SpecStore == InitInbound /\ [][NextStore]_vars

UrpInFlight == {u \in UrpSlots : urp[u].pc # "idle"}

\* C8: updateRealPower is single-flight: at most one computation is between
\* its start and its completion; an invocation that arrives meanwhile
\* changes no state of the engine or the host and starts no computation,
\* then or later (a computation only ever starts while none is in flight).
C8_SingleFlight ==
    /\ [](Cardinality(UrpInFlight) <= 1)
    /\ [][ /\ (obs'.lastOp = "urpDropped" /\ obs' # obs) =>
                /\ UrpInFlight # {}
                /\ UNCHANGED <<urp, host, lastRealPower, hasLastRealPower,
                               realPowerWorkInProgress, invState, cutoff, batBedarf>>
           /\ (UrpInFlight' # UrpInFlight /\ UrpInFlight' # {}) => UrpInFlight = {}
         ]_vars

C8_Witness ==
    /\ Cardinality(UrpInFlight) = 1
    /\ obs.dropped > 0
    /\ obs.lastOp = "urpDropped"

\* C9 as stated: updateRealPower never publishes a value more than 100 W
\* below the last value it published.
C9_NoDropBelowPublishedOriginal ==
    Len(obs.published) = 2 => obs.published[2] + PeakSkipWatts >= obs.published[1]

\* C9 as amended: updateRealPower never publishes a value more than 100 W
\* below the last value it computed, whether that one was published or
\* discarded; the first value is published whatever it is.
C9_NoDropBelowComputed ==
    (obs.published # <<>> /\ obs.pubAfter.has)
        => obs.published[Len(obs.published)] + PeakSkipWatts >= obs.pubAfter.last

C9_Witness ==
    /\ Len(obs.published) = 2
    /\ obs.skipped > 0
    /\ obs.published[2] + PeakSkipWatts < obs.published[1]
    /\ obs.published[2] + PeakSkipWatts >= obs.pubAfter.last

----------------------------------------------------------------------------
(* Claims about the pre-pass and the cycle timer *)

NoBattery == {i \in Inverters : ~cfg.inverters[i].hasBat}

\* C1: once the pre-pass has handled an inverter without battery, the
\* engine has written exactly one set-point for it, the device has
\* received it, it is the inverter's maxPower, and no other one follows.
C1_NoBatteryPinnedOnce ==
    \A i \in NoBattery :
        obs.noBatSeen[i] => /\ obs.callCount[i] = 1
                            /\ obs.cmdCount[i] = 1
                            /\ obs.cmdWatts[i] = cfg.inverters[i].maxPower

\* C6: zusatzpower of every inverter stays within 0..300 W, and no
\* Zusatzpower set-point above 300 W is sent.
C6_ZusatzpowerBounded ==
    /\ \A i \in Inverters : /\ 0 <= invState[i].zusatzpower
                            /\ invState[i].zusatzpower <= ZusatzLimit
    /\ obs.zusatzCmd <= ZusatzLimit

C10_CyclesNeverOverlap == Cardinality(Running) <= 1

----------------------------------------------------------------------------
(* Claims about failing and aborted cycles *)

TimerCanFire == \E c \in Slots, sm \in TimerSmartmeter : RunStart(c, TRUE, sm)

\* C11: an exception inside a run() invocation is caught by the timer
\* callback and leaves the interval armed: after any number of failed
\* cycles the next tick can still invoke run().
C11_TimerSurvivesException ==
    /\ [](adapter.errors > 0 /\ obs.cycles < MaxCycles
          /\ (\E c \in Slots : run[c].pc = "idle") => ENABLED TimerCanFire)
    /\ [][obs'.lastOp = "runThrow" =>
            /\ adapter'.regulationInterval = adapter.regulationInterval
            /\ adapter'.errors = Inc(adapter.errors)]_vars

\* A cycle failed and the timer has started the next run() invocation,
\* which is the only one in progress.
C11_Witness ==
    /\ adapter.errors > 0
    /\ obs.lastOp = "runStart"
    /\ Cardinality({c \in Slots : run[c].pc = "pre"}) = 1
    /\ Cardinality(Running) = 1

\* C12: a cycle that aborts because the lowest value is 0 has written no
\* host state before the abort.
C12_AbortWithoutWrites ==
    obs.lastOp = "runAbort" => ~obs.abortWrote

----------------------------------------------------------------------------
(* Claims about the bridge *)

\* C13: of two frames on the same topic that are identical after the
\* embedded timestamp is normalised and that arrive less than 2000 ms
\* apart, exactly one causes host-state updates.
C13_DuplicateYieldsOneUpdate ==
    (/\ Len(obs.frames) = 2
     /\ obs.frames[1].kind = obs.frames[2].kind
     /\ obs.frames[1].content = obs.frames[2].content
     /\ obs.frames[2].at - obs.frames[1].at < DedupMinAge)
    => (obs.frames[1].updated # obs.frames[2].updated)

\* C14: an acknowledged state change causes no publish; an unacknowledged
\* write to a writeable state while the bridge is connected causes exactly
\* one publish and is then acknowledged, and handling the acknowledgement
\* publishes nothing.
C14_WriteForwardedOnce ==
    [][obs'.lastOp = "stateChange" =>
         LET e == Head(bridge.events)
         IN /\ e.ack => /\ obs'.publishes = obs.publishes
                        /\ bridge'.events = Tail(bridge.events)
            /\ (~e.ack /\ isConnected /\ bridge.client) =>
                   /\ obs'.publishes = Inc(obs.publishes)
                   /\ Len(bridge'.events) > Len(Tail(bridge.events))
                   /\ \A k \in (Len(bridge.events))..Len(bridge'.events) :
                          bridge'.events[k].ack /\ bridge'.events[k].by = "bridge"]_vars

\* A user write was published once and the acknowledgement that followed
\* was handled without a further publish.
C14_Witness ==
    /\ obs.lastOp = "stateChange"
    /\ obs.lastChange.ack /\ obs.lastChange.by = "bridge"
    /\ bridge.events = <<>>
    /\ obs.writes = 1
    /\ obs.publishes = 1

\* C15: at a watchdog tick with the watchdog armed and a PS device silent
\* for longer than the silence window, a reconnect is started: the client
\* is ended and dropped, the bridge is marked disconnected and a
\* _reconnect sequence is under way.
C15_SilenceStartsReconnect ==
    [][(/\ obs'.lastOp = "watchdog"
        /\ bridge.reconnectWatchdog
        /\ \E d \in PSDevices : now' - bridge.lastMsgTs[d] > ReconnectMs)
       => /\ obs'.reconnects = obs.reconnects + 1
          /\ bridge'.reconnecting = bridge.reconnecting + 1
          /\ ~bridge'.client
          /\ ~isConnected']_vars

\* Every device has sent a message, one of them fell silent for longer
\* than the window, and the tick has started a reconnect.
C15_Witness ==
    /\ obs.lastOp = "watchdog"
    /\ obs.reconnects = 1
    /\ bridge.reconnecting = 1
    /\ \A d \in PSDevices : bridge.lastMsgTs[d] > 0
    /\ \E d \in PSDevices : now - bridge.lastMsgTs[d] > ReconnectMs

\* C16: once stop() has completed the watchdog is not armed, the bridge
\* holds no client and is not connected, at any later time.
C16_StoppedStaysStopped ==
    obs.stopped => /\ ~bridge.reconnectWatchdog
                   /\ ~bridge.client
                   /\ ~isConnected

----------------------------------------------------------------------------
(* Claims about the StateManager helpers *)

\* C17: getValAkt with maxAgeMin > 0 returns value 0 when the state is
\* older than maxAgeMin * 60000 ms and the stored value when its age is
\* that threshold or less; an absent state gives value 0 and timestamp 0.
C17_ReadFreshThreshold ==
    [][obs'.lastOp = "getValAkt" =>
         LET r == store'.result
             st == store.state
         IN /\ ~st.present => r.val = Num(0) /\ r.ts = 0
            /\ (st.present /\ r.maxAgeMin > 0 /\ now - st.ts > r.maxAgeMin * 60000)
                   => r.val = Num(0)
            /\ (st.present /\ r.maxAgeMin > 0 /\ now - st.ts <= r.maxAgeMin * 60000)
                   => r.val = st.val /\ r.ts = st.ts]_vars

\* A state with a non-zero value was read at exactly the threshold age and
\* its value came back.
C17_Witness ==
    /\ obs.lastOp = "getValAkt"
    /\ store.result.maxAgeMin = 1
    /\ store.state.present
    /\ store.result.at - store.state.ts = 60000
    /\ store.result.val = store.state.val
    /\ store.state.val.n # 0

\* C18: setStateCon writes and returns true when no prior state exists;
\* with a prior state it returns false and leaves the state alone when
\* changeOnly holds, the value is unchanged and no forced rewrite is due
\* (reWriteMs = 0 or age <= reWriteMs), or when chMinAge > 0 and the last
\* change is younger than chMinAge; otherwise it writes and returns true.
C18_ConditionalWrite ==
    [][obs'.lastOp = "setStateCon" =>
         LET r == store'.result
             st == store.state
             same == /\ r.changeOnly /\ LooseEqual(st.val, r.val)
                     /\ (r.reWriteMs = 0 \/ now - st.ts <= r.reWriteMs)
             young == r.chMinAge > 0 /\ now - st.lc < r.chMinAge
             skip == st.present /\ (same \/ young)
         IN /\ skip => ~r.written /\ store'.state = st
            /\ ~skip => /\ r.written
                        /\ store'.state.present
                        /\ store'.state.val = r.val
                        /\ store'.state.ts = now]_vars

\* An unchanged value was written again because its age had passed
\* reWriteMs by one millisecond.
C18_Witness ==
    /\ obs.lastOp = "setStateCon"
    /\ store.result.written
    /\ store.result.changeOnly
    /\ store.result.reWriteMs = 60000
    /\ store.state.ts = now
    /\ store.state.lc = now - 60001

----------------------------------------------------------------------------
(* Claims about the balanced scenario and the battery-full pin *)

Aggregated == run[1].pc \in {"balance", "end"}

\* C19 as stated: in the balanced cycle with PV readings 300 W and 100 W,
\* SOC 50 and 50 and target 200 W, the cycle computes totalPSPV = 410 and
\* psBatSumme = 100.
C19_ScenarioTotalsOriginal ==
    Aggregated => run[1].totalPSPV = 410 /\ run[1].psBatSumme = 100

\* C19: in the balanced cycle with PV readings 300 W and 100 W, SOC 50 and
\* 50 and target 200 W, the cycle computes totalPSPV = 420 (each reading
\* plus 10 W) and psBatSumme = 100; the PV factor is the PV demand (the
\* target, 200) over totalPSPV and the battery factor is the battery demand
\* (0) over psBatSumme.
C19_ScenarioTotals ==
    Aggregated =>
        /\ run[1].totalPSPV = 300 + 10 + 100 + 10
        /\ run[1].psBatSumme = 50 + 50
        /\ run[1].PVnum = 200 /\ run[1].PVden = run[1].totalPSPV
        /\ run[1].Batnum = 0 /\ run[1].Batden = run[1].psBatSumme
        /\ batBedarf = 0

\* The scenario's cycle has computed its totals and factors and is about to
\* distribute.
C19_Witness ==
    /\ obs.lastOp = "aggregate"
    /\ run[1].pc = "balance"
    /\ run[1].NewValue = 200
    /\ invState[1].sumPV = 300 /\ invState[2].sumPV = 100
    /\ run[1].totalPSPV = 420

\* C20: at the end of every cycle in which a battery inverter without
\* priority switching has a state of charge at or above its full-on
\* threshold, the inverter is excluded from the distribution and the last
\* set-point it was sent is its maximum power, whatever the state of
\* charge was in the cycles before.
C20_FullBatteryPinned ==
    \A i \in Inverters :
        ( /\ obs.lastOp \in {"runReturn", "runAbort"}
          /\ cfg.inverters[i].hasBat /\ ~cfg.inverters[i].battOnSwitchPrio
          /\ invState[i].batstate >= cfg.inverters[i].battPozOn )
        => /\ ~invState[i].regulieren
           /\ obs.cmdWatts[i] = cfg.inverters[i].maxPower

----------------------------------------------------------------------------
(* Claims about the priority mode, the spill, stale readings and the       *)
(* excess-charge controller                                                 *)

\* C21: the engine changes an inverter's priority mode only when the
\* previous change of that priority state is at least 60 s old.
C21_PrioSettleWindow ==
    [][\A i \in Inverters :
          (host'.prio[i] # host.prio[i] /\ host.prioTs[i] > 0)
              => now - host.prioTs[i] >= 60000]_vars

\* C22: balanced distribution: the overflow left after the last inverter
\* of the previous cycle (lastCut) does not influence a set-point: every
\* set-point of a pass is the one computed with nothing carried over from
\* the previous cycle.
C22_SpillWithinOnePass ==
    [][obs'.lastOp = "balance" =>
         LET i == run[1].idx
         IN invState'[i].OldNewValue =
                BalanceShare(invState[i], [run[1] EXCEPT !.lastCut = 0], cutoff, now).Setpower]_vars

\* C23: a missing or stale SOC state is treated as "no data": the pre-pass
\* of a cycle that finds it neither applies the low-battery power limit
\* nor makes the battery-recovered transition.
C23_StaleSocIsNoData ==
    [][(obs'.lastOp = "preDecide" /\ run[1].idx = 1 /\ NoData(store.state, now))
          => /\ invState'[1].TempMaxPower = invState[1].TempMaxPower
             /\ invState'[1].FullPower = invState[1].FullPower]_vars

\* C24: every write of the excess-charge controller to the switch state or
\* to the power state is one that setStateCon makes for that state: the
\* value differs from the stored one or the forced rewrite is due, and the
\* last change of the state is at least its minimum change age old.
C24_WritesThroughSetStateCon ==
    [][obs'.lastOp = "excessCharge" =>
         LET ec == excess.ec
         IN /\ excess'.power # excess.power =>
                   Writes(excess.power, now, excess'.power.val, TRUE, ExcessRewriteMs,
                          ec.minRegulatePauseMin * MsPerMinute)
            /\ excess'.switch # excess.switch =>
                   Writes(excess.switch, now, excess'.switch.val, TRUE, ExcessRewriteMs,
                          ec.switchMinMin * MsPerMinute)
            /\ excess'.cmds.power \in {"none", "setStateCon"}]_vars

(* The load is switched on: the switch state holds the on value or, with   *)
(* no switch state configured, the power state holds a power level.        *)
LoadOn ==
    IF excess.ec.switchStateId
    THEN excess.switch.present /\ LooseEqual(excess.switch.val, excess.ec.switchOnValue)
    ELSE excess.power.present /\ excess.power.val.n > 0

\* C25: with a SOC source configured, a cycle that finds the load not
\* switched on and the SOC at or above batSocMax issues no switch-on
\* command and writes no power level.
C25_SocGateOnActivation ==
    [][(/\ obs'.lastOp = "excessCharge"
        /\ excess.ec.batSocStateId
        /\ ~LoadOn
        /\ excess.batSoc >= excess.ec.batSocMax)
       => /\ ~excess'.cmds.switchOn
          /\ excess'.cmds.power # "setStateCon"]_vars

\* C26: with a SOC source configured, once a session is active and the SOC
\* is at or above batSocOff, the controller eventually clears the active
\* flag, unless the SOC falls below batSocOff first.
C26_ForcedDeactivation ==
    (/\ excess.ec.batSocStateId
     /\ excess.excessChargeWasActive
     /\ excess.batSoc >= excess.ec.batSocOff)
    ~> (~excess.excessChargeWasActive \/ excess.batSoc < excess.ec.batSocOff)

(* C27: a cycle whose history query is never answered still terminates:   *)
(* a run() invocation that waits for the history result eventually         *)
(* returns (falling back to the current real power, or aborting), whether  *)
(* or not the history adapter answers.                                      *)
C27_HistoryTimeoutTolerated ==
    (run[1].pc = "lowest") ~> (run[1].pc = "idle")

(* C28: every header of a decoded binary frame is looked up with the type  *)
(* of the configured device whose serial the header carries, and a header  *)
(* without a serial with the type of the configured device whose serial    *)
(* is part of the topic the frame arrived on.                               *)
C28_TypeFromSerialOrTopic ==
    obs.decoded.has =>
        \A k \in 1..Len(obs.decoded.headers) :
            \A j \in 1..Len(ConfiguredDevices) :
                LET d == ConfiguredDevices[j]
                    h == obs.decoded.headers[k]
                IN (\/ h.deviceSn = d.serial
                    \/ /\ h.deviceSn = ""
                       /\ \E n \in 1..Len(obs.decoded.topic.segs) :
                              obs.decoded.topic.segs[n] = d.serial)
                       => obs.decoded.typs[k] = d.typ

(* C29: a JSON message whose normalised content differs from the one       *)
(* stored under its key (first field name and topic), that is from the     *)
(* last accepted message of that key, is suppressed exactly when it        *)
(* arrives less than 2000 ms after that message was accepted; an accepted  *)
(* message becomes the stored reference with its arrival time, and a       *)
(* suppressed one leaves the stored content and timestamp as they were.    *)
C29_DifferingContentDedup ==
    [][obs'.lastOp = "message" =>
         LET m == obs'.frames[Len(obs'.frames)]
             key == <<m.content[2][1], m.content[1]>>
             prev == bridge.previousContents[key]
         IN (m.kind = "json" /\ prev.has /\ prev.content # m.content) =>
               /\ ~m.updated <=> (now - prev.timeStamp < 2000)
               /\ m.updated => bridge'.previousContents[key] =
                                   [has |-> TRUE, content |-> m.content, timeStamp |-> now]
               /\ ~m.updated => bridge'.previousContents[key] = prev]_vars

(* A message differing from the reference is suppressed, and a later one,  *)
(* differing too, arrives exactly 2000 ms after the reference was          *)
(* accepted: it is accepted and is the new reference.                      *)
C29_Witness ==
    /\ obs.msgs = 3 /\ Len(obs.frames) = 2
    /\ ~obs.frames[1].updated /\ obs.frames[2].updated
    /\ obs.frames[1].content[2][1] = obs.frames[2].content[2][1]
    /\ obs.frames[2].at - obs.frames[1].at < 2000
    /\ LET ref == bridge.previousContents[<<obs.frames[2].content[2][1], 1>>]
       IN /\ ref.content = obs.frames[2].content
          /\ ref.timeStamp = obs.frames[2].at
          /\ obs.frames[1].at - (ref.timeStamp - 2000) \in 1..1999

(* C30: the distribution sends an inverter its set-point in serial mode    *)
(* exactly when the computed set-point differs from the value the inverter *)
(* was last commanded, and in balanced mode exactly when it differs or the *)
(* last write to the inverter is more than 60 s old.                       *)
C30_DistributionWriteSuppression ==
    [][/\ obs'.lastOp = "serial" =>
            LET i == Ordered(run[1].idx)
            IN (obs'.callCount[i] # obs.callCount[i])
                   <=> (invState'[i].OldNewValue # obs.cmdWatts[i])
       /\ obs'.lastOp = "balance" =>
            LET i == run[1].idx
            IN (obs'.callCount[i] # obs.callCount[i])
                   <=> (\/ invState'[i].OldNewValue # obs.cmdWatts[i]
                        \/ obs.callAt[i] < now - 60000)]_vars

----------------------------------------------------------------------------
(* Claims about the runtime state, the bridge's clients, set-point limits  *)
(* and the flags of the engine *)

(* C31: invState holds an entry for exactly the regulation-enabled         *)
(* inverters, from construction on, and the fields of an entry change only *)
(* in a step of a run() cycle: handleDisabled, handleEnabled,              *)
(* updateRealPower and the bridge's callbacks leave them alone.            *)
C31_RuntimeStateOwnedByRun ==
    [][/\ \A i \in Inverters : invState[i].present <=> cfg.inverters[i].regulation
       /\ \A i \in Inverters : invState'[i].present <=> cfg.inverters[i].regulation
       /\ invState' # invState => obs'.lastOp \in RunOps]_vars

(* C34: once the user has switched regulation off and handleDisabled has   *)
(* completed, no step of a run() cycle commands a set-point for any        *)
(* inverter until regulation is switched on again, also when the cycle was *)
(* suspended at an await when regulation was switched off.                 *)
C34_NoSetpointWhileDisabled ==
    [][(~host.enabled /\ ~regulationEnabled /\ obs'.lastOp \in RunOps)
          => /\ obs'.callCount = obs.callCount
             /\ obs'.callAt = obs.callAt
             /\ obs'.cmdWatts = obs.cmdWatts]_vars

(* C32: a binary frame that cannot be decoded, or whose headers all have   *)
(* no catalog entry or an ignored one, writes no host state (RAW, decoded  *)
(* fields, writeables) and leaves the session connected and the client in  *)
(* place.                                                                   *)
C32_DecodeFailureIsolated ==
    [][(obs'.lastOp = "binary" /\ obs'.binary.dropped)
          => /\ obs'.binary.raw = obs.binary.raw
             /\ obs'.binary.rawData = obs.binary.rawData
             /\ obs'.binary.subs = obs.binary.subs
             /\ obs'.binary.writeables = obs.binary.writeables
             /\ isConnected' = isConnected
             /\ bridge'.client = bridge.client]_vars

(* C33: every set-point an inverter has received is at least 0 and at     *)
(* most the inverter's configured maxPower.                                *)
C33_SetpointWithinMaxPower ==
    \A i \in Inverters :
        obs.cmdCount[i] > 0 => /\ 0 <= obs.cmdWatts[i]
                               /\ obs.cmdWatts[i] <= cfg.inverters[i].maxPower

(* C35: when a serial-mode cycle has handled a regulated inverter while    *)
(* the bridge is connected, the value it recorded as the inverter's last   *)
(* commanded set-point has been delivered: an inverter that never received *)
(* a set-point receives one in that step.                                  *)
C35_CommandedIsDelivered ==
    [][\A c \in Slots :
          (/\ run[c].pc = "serial"
           /\ run'[c] # run[c]
           /\ obs'.lastOp = "serial"
           /\ isConnected
           /\ obs.cmdCount[Ordered(run[c].idx)] = 0)
             => obs'.cmdCount[Ordered(run[c].idx)] > 0]_vars

(* C36: the broker clients the bridge has created and not ended are the    *)
(* current client, if there is one, and no other.                          *)
C36_SingleClient == bridge.clients = (IF bridge.client THEN 1 ELSE 0)

(* C37: the watchdog starts no reconnect within the first silence window   *)
(* after start() or after a completed reconnect.                           *)
C37_NoReconnectInFirstWindow ==
    [][(obs'.lastOp = "watchdog" /\ obs'.reconnects # obs.reconnects)
          => now' - obs.established > ReconnectMs]_vars

(* C38: the controller commands the switch on only when the start timer    *)
(* has run for at least the start duration and no cycle since the timer    *)
(* was started had a surplus at or below the start power.                  *)
C38_StartDelayRestarts ==
    [][(obs'.lastOp = "excessCharge" /\ excess'.cmds.switchOn)
          => /\ excess.ueberschussTimer # 0
             /\ now - excess.ueberschussTimer >= excess.ec.startDurationMin * MsPerMinute
             /\ ~excess.dipped]_vars

C40_FlagAlwaysReleased ==
    /\ [](realPowerWorkInProgress <=> UrpInFlight # {})
    /\ [][(UrpInFlight # {} /\ UrpInFlight' = {}) => ~realPowerWorkInProgress']_vars
    /\ (realPowerWorkInProgress ~> ~realPowerWorkInProgress)

(* After a computation that completed, a later invocation was ended by a   *)
(* rejected host call, and the flag is clear.                              *)
C40_Witness ==
    /\ obs.lastOp = "urpThrow"
    /\ hasLastRealPower
    /\ UrpInFlight = {}
    /\ ~realPowerWorkInProgress

====
